---- MODULE Spec2Model ----
(***************************************************************************)
(* The identification-and-caching engine of the-library-sale:              *)
(*   - ScannerManager   (scanner-utils.js)  the scanner session            *)
(*   - CacheManager     (cache.js)          the persistent cache tier      *)
(*   - MediaLookupUtils (scanner-utils.js)  coalesced lookups, resolution  *)
(* Each component has its own specification (SpecScanner, SpecCache,       *)
(* SpecLookup) over the module's variables; the variables of the other     *)
(* components stay at their constructed values.                            *)
(***************************************************************************)
EXTENDS Integers, Sequences, FiniteSets, TLC

VARIABLES
    \* ---- ScannerManager fields
    initialized,        \* codeReader bound and at least one camera found
    continuous,         \* this.continuous
    allowDuplicates,    \* this.allowDuplicates
    isScanning,         \* this.isScanning
    isPaused,           \* this.isPaused
    scannedBarcodes,    \* this.scannedBarcodes : Set
    processingBarcodes, \* this.processingBarcodes : Map barcode -> timestamp
    lastScanTime,       \* this.lastScanTime
    calls,              \* the onBarcodeScanned invocations, in dispatch order
    readyTimers,        \* due times of the pending setTimeout "ready" callbacks
    events,             \* what the last step emitted through onStatusUpdate / onError
    \* ---- CacheManager: its localStorage keys and its counters
    storage,            \* the cached items: <<cacheType, key>> -> [data, expiry]
    cacheIndex,         \* the index objects: cacheType -> <<[key, size, lastUsed], ...>>
    stats,              \* this.stats
    evicted,            \* the entries the last operation evicted, in eviction order
    lastValue,          \* what the last get returned
    useOrder,           \* history: the indexed entries in the order of their last use
    passOrder,          \* history: useOrder when the last operation's eviction pass ran
    opCalls,            \* history: the number of cache calls so far
    \* ---- MediaLookupUtils
    sessionCache,       \* this.sessionCache : Map cacheKey -> result
    pendingRequests,    \* this.pendingRequests : Map cacheKey -> the operation's promise
    ops,                \* the _fetchUPCData / _searchTMDB invocations, in start order
    lookups,            \* the completeMovieLookup invocations, in call order
    returned,           \* what the invocations that ended in the last step gave their callers
    \* ---- the clock read by Date.now()
    now,
    \* ---- the last call of a function that reads no field
    probe               \* [fn, args, value]; NoProbe before the first call

scannerVars == <<initialized, continuous, allowDuplicates, isScanning, isPaused,
                 scannedBarcodes, processingBarcodes, lastScanTime, calls,
                 readyTimers, events>>
cacheVars == <<storage, cacheIndex, stats, evicted, lastValue, useOrder, passOrder,
              opCalls>>
lookupVars == <<sessionCache, pendingRequests, ops, lookups, returned>>
clockVars == <<now>>
vars == <<scannerVars, cacheVars, lookupVars, clockVars, probe>>

NoProbe == [fn |-> "none"]

(***************************************************************************)
(* Bounds of the model.                                                    *)
(***************************************************************************)
MaxCalls == 2
MaxOps == 4

(***************************************************************************)
(* Small helpers on sequences of characters (strings are modelled as       *)
(* sequences of one-character strings).                                    *)
(***************************************************************************)
Digits == {"0", "1", "2", "3", "4", "5", "6", "7", "8", "9"}

RECURSIVE TrimLeft(_)
TrimLeft(s) == IF s # <<>> /\ Head(s) = " " THEN TrimLeft(Tail(s)) ELSE s

RECURSIVE TrimRight(_)
TrimRight(s) ==
    IF s # <<>> /\ s[Len(s)] = " " THEN TrimRight(SubSeq(s, 1, Len(s) - 1)) ELSE s

Trim(s) == TrimRight(TrimLeft(s))

\* /^\d{8,18}$/.test(barcode)
IsValidBarcodeLength(s) == Len(s) \in 8..18
IsValidBarcode(s) == Len(s) \in 8..18 /\ \A i \in 1..Len(s) : s[i] \in Digits

(***************************************************************************)
(* ScannerManager                                                          *)
(***************************************************************************)
minScanInterval == 2000
staleTimeout == 30000
pauseBetweenScans == 1500

\* Date.now() at construction: a wall-clock time far above minScanInterval.
StartTime == 100000

\* The decoded texts and manual entries the model draws from.
Code8 == <<"0", "1", "2", "3", "4", "5", "6", "7">>
Code18 == Code8 \o Code8 \o <<"8", "9">>
Code7 == <<"0", "1", "2", "3", "4", "5", "6">>
Code19 == Code18 \o <<"0">>
CodeAlpha == Code7 \o <<"x">>
CodePadded == <<" ">> \o Code8 \o <<" ">>
CameraTexts == {Code8, Code18, CodeAlpha}
ManualTexts == {Code8, CodePadded, Code19}

\* The instants (ms after construction) at which operations take place: either
\* side of minScanInterval and of staleTimeout after the first instant.
ScannerInstants == {0, 1999, 2000, 30000, 30001}

Status(type) == <<"status", type>>
Error(context) == <<"error", context>>

Call(barcode, source) == [barcode |-> barcode, source |-> source, state |-> "pending"]

MapRemove(m, k) == [x \in DOMAIN m \ {k} |-> m[x]]
MapPut(m, k, v) == [x \in DOMAIN m \cup {k} |-> IF x = k THEN v ELSE m[x]]

\* constructor: config.allowDuplicates || true
ConstructAllowDuplicates(cfg) == cfg \/ TRUE

InitScanner ==
    /\ initialized = FALSE
    /\ continuous \in BOOLEAN
    /\ \E cfg \in BOOLEAN : allowDuplicates = ConstructAllowDuplicates(cfg)
    /\ isScanning = FALSE
    /\ isPaused = FALSE
    /\ scannedBarcodes = {}
    /\ processingBarcodes = <<>>
    /\ lastScanTime = 0
    /\ calls = <<>>
    /\ readyTimers = {}
    /\ events = <<>>
    /\ storage = <<>>
    /\ cacheIndex = <<>>
    /\ stats = [hits |-> 0, misses |-> 0, sets |-> 0, evictions |-> 0]
    /\ evicted = <<>>
    /\ lastValue = [id |-> "null", bytes |-> 0]
    /\ useOrder = <<>>
    /\ passOrder = <<>>
    /\ opCalls = 0
    /\ sessionCache = <<>>
    /\ pendingRequests = <<>>
    /\ ops = <<>>
    /\ lookups = <<>>
    /\ returned = <<>>
    /\ now = StartTime
    /\ probe = NoProbe

\* initialize(): lists the cameras; on success starts the 30 s sweep interval.
Initialize(cameras) ==
    /\ IF cameras = 0
          THEN /\ events' = <<Error("initialization")>>
               /\ UNCHANGED initialized
          ELSE /\ initialized' = TRUE
               /\ events' = <<>>
    /\ UNCHANGED <<continuous, allowDuplicates, isScanning, isPaused, scannedBarcodes,
                   processingBarcodes, lastScanTime, calls, readyTimers>>
    /\ UNCHANGED <<cacheVars, lookupVars, clockVars, probe>>

\* startCamera(): decodeFromVideoDevice either binds the stream or throws.
StartCamera(ok) ==
    /\ IF ~initialized
          THEN /\ events' = <<Error("start_camera")>>
               /\ UNCHANGED <<isScanning, isPaused>>
          ELSE IF isScanning
          THEN /\ events' = <<>>
               /\ UNCHANGED <<isScanning, isPaused>>
          ELSE IF ok
          THEN /\ isScanning' = TRUE
               /\ isPaused' = FALSE
               /\ events' = <<Status("ready")>>
          ELSE /\ isScanning' = FALSE
               /\ isPaused' = FALSE
               /\ events' = <<Error("camera_start")>>
    /\ UNCHANGED <<initialized, continuous, allowDuplicates, scannedBarcodes,
                   processingBarcodes, lastScanTime, calls, readyTimers>>
    /\ UNCHANGED <<cacheVars, lookupVars, clockVars, probe>>

\* stopCamera()
StopCamera ==
    /\ isScanning' = FALSE
    /\ isPaused' = FALSE
    /\ events' = <<>>
    /\ UNCHANGED <<initialized, continuous, allowDuplicates, scannedBarcodes,
                   processingBarcodes, lastScanTime, calls, readyTimers>>
    /\ UNCHANGED <<cacheVars, lookupVars, clockVars, probe>>

\* togglePause()
TogglePause ==
    /\ IF ~continuous
          THEN /\ events' = <<>>
               /\ UNCHANGED isPaused
          ELSE /\ isPaused' = ~isPaused
               /\ events' = <<Status(IF ~isPaused THEN "paused" ELSE "ready")>>
    /\ UNCHANGED <<initialized, continuous, allowDuplicates, isScanning, scannedBarcodes,
                   processingBarcodes, lastScanTime, calls, readyTimers>>
    /\ UNCHANGED <<cacheVars, lookupVars, clockVars, probe>>

\* The schedule of the "ready" status after a handler call settled.
ScheduleReadyNever == readyTimers
ScheduleReady == IF continuous THEN readyTimers \cup {now + pauseBetweenScans} ELSE readyTimers

\* The gate at the top of handleScanResult: !this.isScanning || this.isPaused
NotAcceptingWhenIdle == ~isScanning
NotAccepting == ~isScanning \/ isPaused

\* handleScanResult(result, null) for a decoded text, with the synchronous
\* prefix of processBarcode (the format test runs before the first await).
HandleScanResult(text) ==
    /\ Len(calls) < MaxCalls
    /\ IF NotAccepting
          THEN /\ events' = <<>>
               /\ UNCHANGED <<lastScanTime, processingBarcodes, calls, readyTimers>>
          ELSE IF now - lastScanTime < minScanInterval
          THEN /\ events' = <<>>
               /\ UNCHANGED <<lastScanTime, processingBarcodes, calls, readyTimers>>
          ELSE /\ lastScanTime' = now
               /\ IF text \in DOMAIN processingBarcodes
                     THEN /\ events' = <<Status("processing")>>
                          /\ UNCHANGED <<processingBarcodes, calls, readyTimers>>
                     ELSE IF ~allowDuplicates /\ text \in scannedBarcodes
                     THEN /\ events' = <<Status("warning")>>
                          /\ UNCHANGED <<processingBarcodes, calls, readyTimers>>
                     ELSE IF ~IsValidBarcode(text)
                     THEN \* set, then the throw in processBarcode deletes it again
                          /\ processingBarcodes' = MapRemove(processingBarcodes, text)
                          /\ events' = <<Status("processing"), Error("barcode_processing")>>
                          /\ readyTimers' = ScheduleReady
                          /\ UNCHANGED calls
                     ELSE /\ processingBarcodes' = MapPut(processingBarcodes, text, now)
                          /\ events' = <<Status("processing")>>
                          /\ calls' = Append(calls, Call(text, "camera"))
                          /\ UNCHANGED readyTimers
    /\ UNCHANGED <<initialized, continuous, allowDuplicates, isScanning, isPaused,
                   scannedBarcodes>>
    /\ UNCHANGED <<cacheVars, lookupVars, clockVars, probe>>

\* addManualBarcode(barcode) up to its await of the handler.
AddManualBarcode(text) ==
    /\ Len(calls) < MaxCalls
    /\ LET cleanBarcode == Trim(text) IN
       IF cleanBarcode \in DOMAIN processingBarcodes
          THEN /\ events' = <<Error("processing")>>
               /\ UNCHANGED <<scannedBarcodes, calls>>
          ELSE IF ~IsValidBarcode(cleanBarcode)
          THEN /\ events' = <<Error("manual_entry")>>
               /\ UNCHANGED <<scannedBarcodes, calls>>
          ELSE IF ~allowDuplicates /\ cleanBarcode \in scannedBarcodes
          THEN /\ events' = <<Error("duplicate")>>
               /\ UNCHANGED <<scannedBarcodes, calls>>
          ELSE /\ scannedBarcodes' = scannedBarcodes \cup {cleanBarcode}
               /\ calls' = Append(calls, Call(cleanBarcode, "manual"))
               /\ events' = <<>>
    /\ UNCHANGED <<initialized, continuous, allowDuplicates, isScanning, isPaused,
                   processingBarcodes, lastScanTime, readyTimers>>
    /\ UNCHANGED <<cacheVars, lookupVars, clockVars, probe>>

\* The handler call i resolves: the rest of processBarcode's try block, or
\* addManualBarcode's return true.
HandlerResolve(i) ==
    /\ i \in DOMAIN calls
    /\ calls[i].state = "pending"
    /\ calls' = [calls EXCEPT ![i].state = "settled"]
    /\ IF calls[i].source = "camera"
          THEN /\ scannedBarcodes' = scannedBarcodes \cup {calls[i].barcode}
               /\ processingBarcodes' = MapRemove(processingBarcodes, calls[i].barcode)
               /\ readyTimers' = ScheduleReady
               /\ IF continuous
                     THEN UNCHANGED <<isScanning, isPaused>>
                     ELSE isScanning' = FALSE /\ isPaused' = FALSE
          ELSE UNCHANGED <<scannedBarcodes, processingBarcodes, readyTimers,
                           isScanning, isPaused>>
    /\ events' = <<>>
    /\ UNCHANGED <<initialized, continuous, allowDuplicates, lastScanTime>>
    /\ UNCHANGED <<cacheVars, lookupVars, clockVars, probe>>

\* The handler call i rejects: processBarcode's catch block, or addManualBarcode's.
HandlerReject(i) ==
    /\ i \in DOMAIN calls
    /\ calls[i].state = "pending"
    /\ calls' = [calls EXCEPT ![i].state = "settled"]
    /\ IF calls[i].source = "camera"
          THEN /\ processingBarcodes' = MapRemove(processingBarcodes, calls[i].barcode)
               /\ readyTimers' = ScheduleReady
               /\ events' = <<Error("barcode_processing")>>
          ELSE /\ events' = <<Error("manual_processing")>>
               /\ UNCHANGED <<processingBarcodes, readyTimers>>
    /\ UNCHANGED <<initialized, continuous, allowDuplicates, isScanning, isPaused,
                   scannedBarcodes, lastScanTime>>
    /\ UNCHANGED <<cacheVars, lookupVars, clockVars, probe>>

\* The setTimeout callback scheduled by processBarcode in continuous mode.
ReadyTimerFire(due) ==
    /\ due \in readyTimers
    /\ now >= due
    /\ readyTimers' = readyTimers \ {due}
    /\ events' = IF isScanning /\ ~isPaused THEN <<Status("ready")>> ELSE <<>>
    /\ UNCHANGED <<initialized, continuous, allowDuplicates, isScanning, isPaused,
                   scannedBarcodes, processingBarcodes, lastScanTime, calls>>
    /\ UNCHANGED <<cacheVars, lookupVars, clockVars, probe>>

\* cleanupStaleProcessing(), run by the interval that initialize() starts.
CleanupStaleNever ==
    /\ initialized
    /\ events' = <<>>
    /\ UNCHANGED <<initialized, continuous, allowDuplicates, isScanning, isPaused,
                   scannedBarcodes, processingBarcodes, lastScanTime, calls, readyTimers>>
    /\ UNCHANGED <<cacheVars, lookupVars, clockVars, probe>>
CleanupStaleProcessing ==
    /\ initialized
    /\ processingBarcodes' =
          [b \in {x \in DOMAIN processingBarcodes :
                     ~(now - processingBarcodes[x] > staleTimeout)}
             |-> processingBarcodes[b]]
    /\ events' = <<>>
    /\ UNCHANGED <<initialized, continuous, allowDuplicates, isScanning, isPaused,
                   scannedBarcodes, lastScanTime, calls, readyTimers>>
    /\ UNCHANGED <<cacheVars, lookupVars, clockVars, probe>>

\* reset()
Reset ==
    /\ isScanning' = FALSE
    /\ isPaused' = FALSE
    /\ scannedBarcodes' = {}
    /\ processingBarcodes' = <<>>
    /\ lastScanTime' = 0
    /\ events' = <<>>
    /\ UNCHANGED <<initialized, continuous, allowDuplicates, calls, readyTimers>>
    /\ UNCHANGED <<cacheVars, lookupVars, clockVars, probe>>

\* Time passes between two operations.  A timer callback that is due runs
\* before the clock reaches the next instant of the model.
ScannerTick(t) ==
    /\ StartTime + t > now
    /\ \A due \in readyTimers : due > now
    /\ now' = StartTime + t
    /\ events' = <<>>
    /\ UNCHANGED <<initialized, continuous, allowDuplicates, isScanning, isPaused,
                   scannedBarcodes, processingBarcodes, lastScanTime, calls, readyTimers>>
    /\ UNCHANGED <<cacheVars, lookupVars, probe>>

NextScanner ==
    \/ \E cameras \in {0, 1} : Initialize(cameras)
    \/ \E ok \in BOOLEAN : StartCamera(ok)
    \/ StopCamera
    \/ TogglePause
    \/ \E text \in CameraTexts : HandleScanResult(text)
    \/ \E text \in ManualTexts : AddManualBarcode(text)
    \/ \E i \in 1..MaxCalls : HandlerResolve(i)
    \/ \E i \in 1..MaxCalls : HandlerReject(i)
    \/ \E due \in readyTimers : ReadyTimerFire(due)
    \/ CleanupStaleProcessing
    \/ Reset
    \/ \E t \in ScannerInstants : ScannerTick(t)

SpecScanner == InitScanner /\ [][NextScanner]_vars

(***************************************************************************)
(* The session fed by the camera alone: every operation of the scanner     *)
(* except manual entry.                                                    *)
(***************************************************************************)
NextCamera ==
    \/ \E cameras \in {0, 1} : Initialize(cameras)
    \/ \E ok \in BOOLEAN : StartCamera(ok)
    \/ StopCamera
    \/ TogglePause
    \/ \E text \in CameraTexts : HandleScanResult(text)
    \/ \E i \in 1..MaxCalls : HandlerResolve(i)
    \/ \E i \in 1..MaxCalls : HandlerReject(i)
    \/ \E due \in readyTimers : ReadyTimerFire(due)
    \/ CleanupStaleProcessing
    \/ Reset
    \/ \E t \in ScannerInstants : ScannerTick(t)

SpecCamera == InitScanner /\ [][NextCamera]_vars

(***************************************************************************)
(* The session between two resets: both entry paths, the camera and the    *)
(* manual one, with every other operation of the scanner except reset().   *)
(***************************************************************************)
NextEntry ==
    \/ \E cameras \in {0, 1} : Initialize(cameras)
    \/ \E ok \in BOOLEAN : StartCamera(ok)
    \/ StopCamera
    \/ TogglePause
    \/ \E text \in CameraTexts : HandleScanResult(text)
    \/ \E text \in ManualTexts : AddManualBarcode(text)
    \/ \E i \in 1..MaxCalls : HandlerResolve(i)
    \/ \E i \in 1..MaxCalls : HandlerReject(i)
    \/ \E due \in readyTimers : ReadyTimerFire(due)
    \/ CleanupStaleProcessing
    \/ \E t \in ScannerInstants : ScannerTick(t)

SpecEntry == InitScanner /\ [][NextEntry]_vars

(***************************************************************************)
(* Claims about the scanner session.                                       *)
(***************************************************************************)
Unsettled(b) == {i \in DOMAIN calls : calls[i].state = "pending" /\ calls[i].barcode = b}

\* C2: no double dispatch.  For every barcode, at most one onBarcodeScanned
\* invocation is unsettled at any time.
C2_NoDoubleDispatch ==
    \A i, j \in DOMAIN calls :
        (calls[i].state = "pending" /\ calls[j].state = "pending"
            /\ calls[i].barcode = calls[j].barcode) => i = j

\* C3: no barcode is at once in the in-flight set (processingBarcodes) and in
\* the completed set (scannedBarcodes).
C3_InFlightCompletedDisjoint ==
    DOMAIN processingBarcodes \cap scannedBarcodes = {}

(***************************************************************************)
(* CacheManager (cache.js)                                                 *)
(***************************************************************************)
\* new CacheManager(prefix, maxSizeMB, defaultExpiryHours): the ceiling in bytes
\* and the default time to live in ms, at the scale of the model's payloads.
maxSizeBytes == 1000
defaultExpiryMs == 24 * 60 * 60 * 1000

\* The cached values: a payload and the length of JSON.stringify({data, expiry}).
Null == [id |-> "null", bytes |-> 0]
Payloads == {[id |-> "p", bytes |-> 400], [id |-> "q", bytes |-> 600],
             [id |-> "r", bytes |-> 1100]}
\* The values written under each key: one occupying exactly the rest of the
\* ceiling next to another, one larger than the ceiling.
PayloadsOf(slot) ==
    IF slot[2] = "A" THEN {[id |-> "p", bytes |-> 400]}
    ELSE IF slot[2] = "B" THEN {[id |-> "p", bytes |-> 400], [id |-> "q", bytes |-> 600]}
    ELSE {[id |-> "p", bytes |-> 400], [id |-> "r", bytes |-> 1100]}
ItemSize(data) == data.bytes

CacheTypes == {"upc", "tmdb"}
Slots == {<<"upc", "A">>, <<"upc", "B">>, <<"tmdb", "C">>}

\* The instants at which cache operations take place: the last one is the
\* expiry time of an entry written at the second, and past that of an entry
\* written at the first.
CacheInstants == {0, 1, defaultExpiryMs + 1}

\* The cache as one value: the operations below map a cache to a cache.
Cache == [storage |-> storage, index |-> cacheIndex, stats |-> stats, evicted |-> <<>>]

\* _getCacheIndex(cacheType): the stored index, or {} when there is none.
GetCacheIndex(c, cacheType) ==
    IF cacheType \in DOMAIN c.index THEN c.index[cacheType] ELSE <<>>

IndexHas(ix, key) == \E i \in 1..Len(ix) : ix[i].key = key
IndexRecord(ix, key) == ix[CHOOSE i \in 1..Len(ix) : ix[i].key = key]

\* index[key] = {size, lastUsed}: an existing property keeps its place in the
\* object, a new one is added last.
IndexPut(ix, key, size, lastUsed) ==
    LET rec == [key |-> key, size |-> size, lastUsed |-> lastUsed] IN
    IF IndexHas(ix, key)
       THEN [i \in 1..Len(ix) |-> IF ix[i].key = key THEN rec ELSE ix[i]]
       ELSE Append(ix, rec)

\* delete index[key]
IndexDelete(ix, key) == SelectSeq(ix, LAMBDA r : r.key # key)

RECURSIVE SumSizes(_)
SumSizes(ix) == IF ix = <<>> THEN 0 ELSE Head(ix).size + SumSizes(Tail(ix))

RECURSIVE SumOver(_, _)
SumOver(c, types) ==
    IF types = {} THEN 0
    ELSE LET t == CHOOSE x \in types : TRUE
         IN SumSizes(c.index[t]) + SumOver(c, types \ {t})

\* getTotalSize()
GetTotalSize(c) == SumOver(c, DOMAIN c.index)

\* remove(cacheType, key)
Remove(c, cacheType, key) ==
    [c EXCEPT !.storage = MapRemove(@, <<cacheType, key>>),
              !.index = MapPut(@, cacheType, IndexDelete(GetCacheIndex(c, cacheType), key))]

\* Array.prototype.sort((a, b) => a.lastUsed - b.lastUsed): a stable sort.
RECURSIVE InsertByLastUsed(_, _)
InsertByLastUsed(sorted, x) ==
    IF sorted = <<>> THEN <<x>>
    ELSE IF Head(sorted).lastUsed <= x.lastUsed
         THEN <<Head(sorted)>> \o InsertByLastUsed(Tail(sorted), x)
         ELSE <<x>> \o sorted

RECURSIVE SortByLastUsed(_)
SortByLastUsed(items) ==
    IF items = <<>> THEN <<>>
    ELSE InsertByLastUsed(SortByLastUsed(SubSeq(items, 1, Len(items) - 1)),
                          items[Len(items)])

\* The items of all indexes, the indexes taken in the order in which
\* Object.keys(localStorage) lists them.
RECURSIVE GatherItems(_, _)
GatherItems(c, order) ==
    IF order = <<>> THEN <<>>
    ELSE LET ix == c.index[Head(order)]
         IN [i \in 1..Len(ix) |-> [cacheType |-> Head(order), key |-> ix[i].key,
                                   lastUsed |-> ix[i].lastUsed, size |-> ix[i].size]]
            \o GatherItems(c, Tail(order))

\* The while loop of _enforceSizeLimit.
EvictOnce(c, allItems, totalSize) ==
    IF totalSize > maxSizeBytes /\ allItems # <<>>
       THEN LET item == Head(allItems)
            IN [Remove(c, item.cacheType, item.key) EXCEPT
                   !.stats.evictions = @ + 1,
                   !.evicted = Append(@, <<item.cacheType, item.key>>)]
       ELSE c
RECURSIVE EvictWhileOver(_, _, _)
EvictWhileOver(c, allItems, totalSize) ==
    IF totalSize > maxSizeBytes /\ allItems # <<>>
       THEN LET item == Head(allItems)
                c1 == Remove(c, item.cacheType, item.key)
            IN EvictWhileOver(
                   [c1 EXCEPT !.stats.evictions = @ + 1,
                              !.evicted = Append(@, <<item.cacheType, item.key>>)],
                   Tail(allItems), totalSize - item.size)
       ELSE c

\* _enforceSizeLimit(force)
EnforceSizeLimit(c, force, order) ==
    LET totalSize == GetTotalSize(c) IN
    IF ~force /\ totalSize < maxSizeBytes
       THEN c
       ELSE EvictWhileOver(c, SortByLastUsed(GatherItems(c, order)), totalSize)

\* The orders in which Object.keys(localStorage) may list the index keys.
KeyOrders(types) ==
    {o \in UNION {[1..n -> types] : n \in {Cardinality(types)}} :
        \A i, j \in DOMAIN o : o[i] = o[j] => i = j}

\* set(cacheType, key, data): write is the outcome of localStorage.setItem for the
\* item ("ok" or "quota"), retry that of the second setItem after a quota error.
SetWithoutRetry(c, cacheType, key, data, t, write, retry, order) ==
    LET item == [data |-> data, expiry |-> t + defaultExpiryMs]
        itemSize == ItemSize(data)
        index == IndexPut(GetCacheIndex(c, cacheType), key, itemSize, t)
    IN IF write = "ok"
          THEN LET c1 == [c EXCEPT !.storage = MapPut(@, <<cacheType, key>>, item),
                                   !.index = MapPut(@, cacheType, index),
                                   !.stats.sets = @ + 1]
               IN EnforceSizeLimit(c1, FALSE, order)
          ELSE EnforceSizeLimit(c, TRUE, order)
Set(c, cacheType, key, data, t, write, retry, order) ==
    LET item == [data |-> data, expiry |-> t + defaultExpiryMs]
        itemSize == ItemSize(data)
        index == IndexPut(GetCacheIndex(c, cacheType), key, itemSize, t)
    IN IF write = "ok"
          THEN LET c1 == [c EXCEPT !.storage = MapPut(@, <<cacheType, key>>, item),
                                   !.index = MapPut(@, cacheType, index),
                                   !.stats.sets = @ + 1]
               IN EnforceSizeLimit(c1, FALSE, order)
          ELSE LET c1 == EnforceSizeLimit(c, TRUE, order)
               IN IF retry
                     THEN [c1 EXCEPT !.storage = MapPut(@, <<cacheType, key>>, item)]
                     ELSE c1

\* Date.now() > item.expiry
IsExpiredFromExpiry(item, t) == t >= item.expiry
IsExpired(item, t) == t > item.expiry

\* A stored string that JSON.parse rejects (the key was overwritten from
\* outside the CacheManager).
Garbled == [data |-> Null, expiry |-> -1]
Parses(item) == item.expiry >= 0

\* get(cacheType, key): the cache afterwards and the value returned.
Get(c, cacheType, key, t) ==
    IF <<cacheType, key>> \notin DOMAIN c.storage
       THEN [cache |-> [c EXCEPT !.stats.misses = @ + 1], value |-> Null]
       ELSE LET item == c.storage[<<cacheType, key>>]
                index == GetCacheIndex(c, cacheType)
            IN IF ~Parses(item)
                  THEN [cache |-> Remove(c, cacheType, key), value |-> Null]
               ELSE IF IsExpired(item, t)
                  THEN [cache |-> [Remove(c, cacheType, key) EXCEPT !.stats.misses = @ + 1],
                        value |-> Null]
                  ELSE [cache |-> [c EXCEPT
                                     !.index = IF IndexHas(index, key)
                                                  THEN MapPut(@, cacheType,
                                                          IndexPut(index, key,
                                                              IndexRecord(index, key).size, t))
                                                  ELSE @,
                                     !.stats.hits = @ + 1],
                        value |-> item.data]

\* clear(cacheType); cacheType = "" stands for clear(null)
Clear(c, cacheType) ==
    IF cacheType # ""
       THEN LET index == GetCacheIndex(c, cacheType)
                keys == {index[i].key : i \in 1..Len(index)}
            IN [c EXCEPT !.storage = [s \in {x \in DOMAIN @ :
                                               ~(x[1] = cacheType /\ x[2] \in keys)} |-> @[s]],
                         !.index = MapRemove(@, cacheType)]
       ELSE [c EXCEPT !.storage = <<>>, !.index = <<>>]

\* History: the entry becomes the most recently used one; only indexed entries
\* are kept.
Touch(order, slot) == SelectSeq(order, LAMBDA x : x # slot) \o <<slot>>
InitCache ==
    /\ initialized = FALSE
    /\ continuous = FALSE
    /\ allowDuplicates = TRUE
    /\ isScanning = FALSE
    /\ isPaused = FALSE
    /\ scannedBarcodes = {}
    /\ processingBarcodes = <<>>
    /\ lastScanTime = 0
    /\ calls = <<>>
    /\ readyTimers = {}
    /\ events = <<>>
    /\ storage = <<>>
    /\ cacheIndex = <<>>
    /\ stats = [hits |-> 0, misses |-> 0, sets |-> 0, evictions |-> 0]
    /\ evicted = <<>>
    /\ lastValue = Null
    /\ useOrder = <<>>
    /\ passOrder = <<>>
    /\ opCalls = 0
    /\ sessionCache = <<>>
    /\ pendingRequests = <<>>
    /\ ops = <<>>
    /\ lookups = <<>>
    /\ returned = <<>>
    /\ now = StartTime
    /\ probe = NoProbe

IndexedSlots(index) ==
    UNION {{<<t, index[t][i].key>> : i \in 1..Len(index[t])} : t \in DOMAIN index}

Install(c, order) ==
    /\ storage' = c.storage
    /\ cacheIndex' = c.index
    /\ stats' = c.stats
    /\ evicted' = c.evicted
    /\ useOrder' = SelectSeq(order, LAMBDA x : x \in IndexedSlots(c.index))

CacheSet(slot, data, write, retry, order) ==
    /\ opCalls < MaxOps
    /\ opCalls' = opCalls + 1
    /\ LET touched == IF write = "ok" THEN Touch(useOrder, slot) ELSE useOrder
       IN /\ Install(Set(Cache, slot[1], slot[2], data, now, write, retry, order), touched)
          /\ passOrder' = touched
    /\ lastValue' = Null
    /\ UNCHANGED <<now, probe, scannerVars, lookupVars>>

CacheGet(slot) ==
    /\ opCalls < MaxOps
    /\ opCalls' = opCalls + 1
    /\ LET r == Get(Cache, slot[1], slot[2], now)
       IN /\ Install(r.cache, IF r.cache.stats.hits > stats.hits /\ slot \in IndexedSlots(cacheIndex)
                                 THEN Touch(useOrder, slot) ELSE useOrder)
          /\ lastValue' = r.value
    /\ passOrder' = <<>>
    /\ UNCHANGED <<now, probe, scannerVars, lookupVars>>

CacheRemove(slot) ==
    /\ opCalls < MaxOps
    /\ opCalls' = opCalls + 1
    /\ Install(Remove(Cache, slot[1], slot[2]), useOrder)
    /\ lastValue' = Null
    /\ passOrder' = <<>>
    /\ UNCHANGED <<now, probe, scannerVars, lookupVars>>

CacheClear(cacheType) ==
    /\ opCalls < MaxOps
    /\ opCalls' = opCalls + 1
    /\ Install(Clear(Cache, cacheType), useOrder)
    /\ lastValue' = Null
    /\ passOrder' = <<>>
    /\ UNCHANGED <<now, probe, scannerVars, lookupVars>>

CacheTick(t) ==
    /\ StartTime + t > now
    /\ now' = StartTime + t
    /\ evicted' = <<>>
    /\ lastValue' = Null
    /\ passOrder' = <<>>
    /\ UNCHANGED <<storage, cacheIndex, stats, useOrder, opCalls, probe, scannerVars,
                   lookupVars>>

\* getStats(): the counters with getTotalSize(); the megabyte formatting of
\* the total is left out, bytes carries the total itself.
CacheGetStatsCounting ==
    /\ opCalls < MaxOps
    /\ opCalls' = opCalls + 1
    /\ lastValue' = [id |-> "stats", bytes |-> GetTotalSize(Cache)]
    /\ stats' = [stats EXCEPT !.hits = @ + 1]
    /\ evicted' = <<>>
    /\ passOrder' = <<>>
    /\ UNCHANGED <<storage, cacheIndex, useOrder, now, probe, scannerVars, lookupVars>>
CacheGetStats ==
    /\ opCalls < MaxOps
    /\ opCalls' = opCalls + 1
    /\ lastValue' = [id |-> "stats", bytes |-> GetTotalSize(Cache)]
    /\ evicted' = <<>>
    /\ passOrder' = <<>>
    /\ UNCHANGED <<storage, cacheIndex, stats, useOrder, now, probe, scannerVars, lookupVars>>

\* Something other than the CacheManager overwrites a stored item with text
\* that is not JSON.
Garble(slot) ==
    /\ opCalls < MaxOps
    /\ slot \in DOMAIN storage
    /\ Parses(storage[slot])
    /\ storage' = [storage EXCEPT ![slot] = Garbled]
    /\ evicted' = <<>>
    /\ lastValue' = Null
    /\ passOrder' = <<>>
    /\ UNCHANGED <<cacheIndex, stats, useOrder, opCalls, now, probe, scannerVars, lookupVars>>

NextCache ==
    \/ \E slot \in Slots, data \in Payloads, write \in {"ok", "quota"}, retry \in BOOLEAN :
          \E order \in KeyOrders(IF write = "ok" THEN DOMAIN cacheIndex \cup {slot[1]}
                                                 ELSE DOMAIN cacheIndex) :
              /\ (write = "ok" => retry)
              /\ data \in PayloadsOf(slot)
              /\ CacheSet(slot, data, write, retry, order)
    \/ \E slot \in Slots : CacheGet(slot)
    \/ \E slot \in Slots : CacheRemove(slot)
    \/ \E cacheType \in CacheTypes \cup {""} : CacheClear(cacheType)
    \/ \E t \in CacheInstants : CacheTick(t)

SpecCache == InitCache /\ [][NextCache]_vars

(***************************************************************************)
(* Claims about the cache.                                                 *)
(***************************************************************************)
\* C4: global LRU eviction.  The entries an eviction pass removes are the
\* least recently used ones over all namespaces, oldest first, so the
\* survivors are the most recently used ones (with three 400-byte entries A,
\* B, C under a ceiling of 1000 and a get(A) after B, the pass of C removes B).
C4_EvictsLeastRecentlyUsed ==
    /\ Len(evicted) <= Len(passOrder)
    /\ \A i \in 1..Len(evicted) : evicted[i] = passOrder[i]

\* C5: after every set, the bytes recorded over all indexes are at most
\* maxSizeBytes, or no indexed entry remains.
C5_SizeBound ==
    GetTotalSize(Cache) <= maxSizeBytes \/ IndexedSlots(cacheIndex) = {}

\* A set has just evicted entries and left others indexed.
C5_Witness ==
    /\ evicted # <<>>
    /\ IndexedSlots(cacheIndex) # {}
    /\ GetTotalSize(Cache) = maxSizeBytes

\* C6: a get issued strictly after the entry's expiry returns null and removes
\* the item and its index record, so the total size drops by the entry's
\* size; a get issued at or before the expiry returns the stored payload.
C6_LazyExpiry ==
    [][\A slot \in Slots :
          (CacheGet(slot) /\ slot \in DOMAIN storage) =>
              IF now > storage[slot].expiry
                 THEN /\ lastValue' = Null
                      /\ slot \notin DOMAIN storage'
                      /\ slot \notin IndexedSlots(cacheIndex')
                      /\ GetTotalSize(Cache)' =
                            GetTotalSize(Cache)
                            - (IF slot \in IndexedSlots(cacheIndex)
                                  THEN IndexRecord(cacheIndex[slot[1]], slot[2]).size
                                  ELSE 0)
                 ELSE /\ lastValue' = storage[slot].data
                      /\ storage' = storage]_vars

\* One set and one get were called, nothing was evicted, and the item the set
\* stored is gone: the get found it expired and removed it.
C6_Witness ==
    /\ opCalls = 2 /\ stats.sets = 1 /\ stats.evictions = 0 /\ stats.misses = 1
    /\ storage = <<>>
    /\ lastValue = Null
    /\ now > StartTime + defaultExpiryMs

(***************************************************************************)
(* MediaLookupUtils (scanner-utils.js).  A JavaScript string is a sequence *)
(* of one-character strings; a score is a rational <<numerator,            *)
(* denominator>> in lowest terms.                                          *)
(***************************************************************************)
UpperCase == <<"A", "B", "C", "D", "E", "F", "G", "H", "I", "J", "K", "L", "M",
               "N", "O", "P", "Q", "R", "S", "T", "U", "V", "W", "X", "Y", "Z">>
LowerCase == <<"a", "b", "c", "d", "e", "f", "g", "h", "i", "j", "k", "l", "m",
               "n", "o", "p", "q", "r", "s", "t", "u", "v", "w", "x", "y", "z">>
DigitChars == <<"0", "1", "2", "3", "4", "5", "6", "7", "8", "9">>

Range(s) == {s[i] : i \in DOMAIN s}
Letters == Range(UpperCase) \cup Range(LowerCase)
DigitSet == Range(DigitChars)
LowerOf == [ch \in Range(UpperCase) |->
               LowerCase[CHOOSE k \in DOMAIN UpperCase : UpperCase[k] = ch]]
UpperOf == [ch \in Range(LowerCase) |->
               UpperCase[CHOOSE k \in DOMAIN LowerCase : LowerCase[k] = ch]]
IsLetter(ch) == ch \in Letters
IsDigit(ch) == ch \in DigitSet
\* \w
IsWordChar(ch) == IsLetter(ch) \/ IsDigit(ch) \/ ch = "_"
\* \s
IsSpace(ch) == ch = " "

CharToLower(ch) == IF ch \in DOMAIN LowerOf THEN LowerOf[ch] ELSE ch
CharToUpper(ch) == IF ch \in DOMAIN UpperOf THEN UpperOf[ch] ELSE ch
ToLowerCase(s) == [i \in DOMAIN s |-> CharToLower(s[i])]

RECURSIVE StrTrimLeft(_)
StrTrimLeft(s) == IF s # <<>> /\ IsSpace(Head(s)) THEN StrTrimLeft(Tail(s)) ELSE s
RECURSIVE StrTrimRight(_)
StrTrimRight(s) ==
    IF s # <<>> /\ IsSpace(s[Len(s)]) THEN StrTrimRight(SubSeq(s, 1, Len(s) - 1)) ELSE s
StrTrim(s) == StrTrimRight(StrTrimLeft(s))

\* The text of a string, for keys and messages.
RECURSIVE Text(_)
Text(s) == IF s = <<>> THEN "" ELSE Head(s) \o Text(Tail(s))

\* The maximal runs of non-space characters of s, in order.
RECURSIVE WordsFrom(_, _, _)
WordsFrom(s, i, word) ==
    IF i > Len(s)
       THEN IF word = <<>> THEN <<>> ELSE <<word>>
       ELSE IF IsSpace(s[i])
               THEN (IF word = <<>> THEN <<>> ELSE <<word>>) \o WordsFrom(s, i + 1, <<>>)
               ELSE WordsFrom(s, i + 1, Append(word, s[i]))
Words(s) == WordsFrom(s, 1, <<>>)

\* words.join(' ')
RECURSIVE JoinWords(_)
JoinWords(words) ==
    IF words = <<>> THEN <<>>
    ELSE IF Len(words) = 1 THEN Head(words)
    ELSE Head(words) \o <<" ">> \o JoinWords(Tail(words))

\* a.includes(b)
Includes(a, b) ==
    \E i \in 1..(Len(a) - Len(b) + 1) : SubSeq(a, i, i + Len(b) - 1) = b

\* String(n) for n >= 0
RECURSIVE IntToString(_)
IntToString(n) ==
    IF n < 10 THEN <<DigitChars[n + 1]>>
    ELSE Append(IntToString(n \div 10), DigitChars[(n % 10) + 1])

\* parseInt of a string of digits
RECURSIVE ParseInt(_)
ParseInt(s) ==
    IF s = <<>> THEN 0
    ELSE 10 * ParseInt(SubSeq(s, 1, Len(s) - 1))
         + (CHOOSE k \in 0..9 : DigitChars[k + 1] = s[Len(s)])

\* ---- rationals
RECURSIVE GCD(_, _)
GCD(a, b) == IF b = 0 THEN a ELSE GCD(b, a % b)
Abs(n) == IF n < 0 THEN -n ELSE n
Rat(n, d) ==
    LET g == GCD(Abs(n), d) IN IF n = 0 THEN <<0, 1>> ELSE <<n \div g, d \div g>>
Whole(n) == <<n, 1>>
RAdd(x, y) == Rat(x[1] * y[2] + y[1] * x[2], x[2] * y[2])
RLess(x, y) == x[1] * y[2] < y[1] * x[2]
RMin(x, y) == IF RLess(y, x) THEN y ELSE x
RMax(x, y) == IF RLess(x, y) THEN y ELSE x
Min2(a, b) == IF a < b THEN a ELSE b
Max2(a, b) == IF a > b THEN a ELSE b

\* ---- title comparison
\* normalizeTitle: lower case, drop punctuation, drop the articles, single
\* spaces, trim.
Articles == {<<"t", "h", "e">>, <<"a">>, <<"a", "n">>}
normalizeTitle(title) ==
    LET lower == ToLowerCase(title)
        plain == SelectSeq(lower, LAMBDA ch : IsWordChar(ch) \/ IsSpace(ch))
    IN JoinWords(SelectSeq(Words(plain), LAMBDA w : w \notin Articles))

\* levenshteinDistance: matrix[i] from matrix[i - 1], for the character ch of
\* str2; a row holds the columns 0..str1.length at the indexes 1..Len(str1) + 1.
RECURSIVE MatrixRow(_, _, _, _)
MatrixRow(prev, ch, str1, row) ==
    LET j == Len(row)
    IN IF j > Len(str1) THEN row
       ELSE MatrixRow(prev, ch, str1,
                Append(row, IF ch = str1[j]
                               THEN prev[j]
                               ELSE 1 + Min2(prev[j], Min2(row[j], prev[j + 1]))))

RECURSIVE MatrixRows(_, _, _)
MatrixRows(prev, i, strs) ==
    IF i > Len(strs[2]) THEN prev
    ELSE MatrixRows(MatrixRow(prev, strs[2][i], strs[1], <<i>>), i + 1, strs)

levenshteinDistance(str1, str2) ==
    MatrixRows([j \in 1..(Len(str1) + 1) |-> j - 1], 1, <<str1, str2>>)[Len(str1) + 1]

\* split(/\s+/) of a normalized title, as a set: the empty string splits into
\* one empty word.
WordSet(clean) == IF clean = <<>> THEN {<<>>} ELSE Range(Words(clean))

\* calculateTitleSimilarity; "" and undefined are both falsy.
calculateTitleSimilarityContained(original, candidate) ==
    IF original = <<>> \/ candidate = <<>> THEN Whole(0)
    ELSE LET origClean == normalizeTitle(original)
             candClean == normalizeTitle(candidate)
         IN IF Includes(origClean, candClean) \/ Includes(candClean, origClean)
               THEN Whole(35)
            ELSE LET distance == levenshteinDistance(origClean, candClean)
                     maxLength == Max2(Len(origClean), Len(candClean))
                     origWords == WordSet(origClean)
                     candWords == WordSet(candClean)
                     inter == Cardinality(origWords \cap candWords)
                     union == Cardinality(origWords \cup candWords)
                     combinedScore == RAdd(Rat(24 * (maxLength - distance), maxLength),
                                           Rat(16 * inter, union))
                 IN RMax(Whole(0), combinedScore)
calculateTitleSimilarity(original, candidate) ==
    IF original = <<>> \/ candidate = <<>> THEN Whole(0)
    ELSE LET origClean == normalizeTitle(original)
             candClean == normalizeTitle(candidate)
         IN IF origClean = candClean THEN Whole(40)
            ELSE IF Includes(origClean, candClean) \/ Includes(candClean, origClean)
                    THEN Whole(35)
            ELSE LET distance == levenshteinDistance(origClean, candClean)
                     maxLength == Max2(Len(origClean), Len(candClean))
                     origWords == WordSet(origClean)
                     candWords == WordSet(candClean)
                     inter == Cardinality(origWords \cap candWords)
                     union == Cardinality(origWords \cup candWords)
                     \* (similarity * 0.6 + wordSimilarity * 0.4) * 40
                     combinedScore == RAdd(Rat(24 * (maxLength - distance), maxLength),
                                           Rat(16 * inter, union))
                 IN RMax(Whole(0), combinedScore)

\* ---- title cleaning.  Product titles are taken over letters, digits and
\* spaces, so a \b...\b alternative matches whole space-separated tokens; a
\* removed token leaves an empty token (its two spaces stay), and the
\* alternatives that need other characters ("Blu-ray", "Director's Cut",
\* "Sci-fi", "2-Disc", "Pan & Scan", "Version You've Never Seen") cannot match.
\* title.split(' ')
RECURSIVE SplitFrom(_, _, _)
SplitFrom(s, i, word) ==
    IF i > Len(s) THEN <<word>>
    ELSE IF IsSpace(s[i]) THEN <<word>> \o SplitFrom(s, i + 1, <<>>)
    ELSE SplitFrom(s, i + 1, Append(word, s[i]))
Split(s) == SplitFrom(s, 1, <<>>)

AllDigits(tok) == tok # <<>> /\ \A i \in DOMAIN tok : IsDigit(tok[i])
\* one word of an alternative against a token, case-insensitively
WordMatches(tok, pat) ==
    CASE pat = "\\d+" -> AllDigits(tok)
      [] pat = "[AB]" -> ToLowerCase(tok) \in {<<"a">>, <<"b">>}
      [] OTHER -> Text(ToLowerCase(tok)) = pat
PhraseAt(tokens, i, phrase) ==
    /\ i + Len(phrase) - 1 <= Len(tokens)
    /\ \A k \in DOMAIN phrase : WordMatches(tokens[i + k - 1], phrase[k])

\* replace(/\b(alt1|alt2|...)\b/gi, ''): leftmost match, first alternative
RECURSIVE RemovePhrases(_, _, _)
RemovePhrases(tokens, i, phrases) ==
    IF i > Len(tokens) THEN tokens
    ELSE LET hits == {k \in DOMAIN phrases : PhraseAt(tokens, i, phrases[k])}
         IN IF hits = {} THEN RemovePhrases(tokens, i + 1, phrases)
            ELSE LET n == Len(phrases[CHOOSE k \in hits : \A h \in hits : k <= h])
                 IN RemovePhrases([j \in DOMAIN tokens |->
                                      IF j \in i..(i + n - 1) THEN <<>> ELSE tokens[j]],
                                  i + n, phrases)

studioNames ==
    << <<"warner", "home", "video">>, <<"sony", "pictures">>, <<"alpha", "video">>,
       <<"universal", "studios">>, <<"paramount", "pictures">>, <<"disney">>, <<"mgm">>,
       <<"columbia", "pictures">>, <<"fox">>, <<"lionsgate">>,
       <<"criterion", "collection">>, <<"anchor", "bay">>, <<"searchlight">>,
       <<"magnolia">> >>
FormatWords ==
    << <<"dvd">>, <<"blu", "ray">>, <<"bd">>, <<"4k">>, <<"uhd">>, <<"ultra", "hd">>,
       <<"hd">> >>
ScreenWords == << <<"widescreen">>, <<"full", "screen">>, <<"fullscreen">> >>
EditionWords ==
    << <<"extended", "edition">>, <<"special", "edition">>, <<"limited", "edition">>,
       <<"anniversary", "edition">>, <<"unrated">>, <<"theatrical">>,
       <<"ultimate", "edition">>, <<"extended">>, <<"cut">>, <<"two", "disk">>,
       <<"2", "disk">>, <<"deluxe">> >>
GenreWords ==
    << <<"comedy">>, <<"drama">>, <<"action">>, <<"thriller">>, <<"horror">>,
       <<"romance">>, <<"fantasy">>, <<"adventure">>, <<"documentary">> >>
FeatureWords ==
    << <<"special", "features">>, <<"bonus", "material">>, <<"behind", "the", "scenes">> >>
ConditionWords == << <<"used">>, <<"new">>, <<"sealed">> >>
RegionWords ==
    << <<"disc", "\\d+">>, <<"side", "[AB]">>, <<"region", "\\d+">>, <<"all", "regions">>,
       <<"region", "free">>, <<"region", "1">>, <<"region", "2">>, <<"uk">>, <<"us">> >>
FrameWords == << <<"full", "frame">>, <<"anamorphic">> >>

RECURSIVE RemoveStudios(_, _)
RemoveStudios(tokens, k) ==
    IF k > Len(studioNames) THEN tokens
    ELSE RemoveStudios(RemovePhrases(tokens, 1, <<studioNames[k]>>), k + 1)

\* \bs\b -> 's, \bt\b -> 't, \bre\b -> 're, \bve\b -> 've, \bll\b -> 'll
FixApostrophes(tokens) ==
    [j \in DOMAIN tokens |->
        IF tokens[j] \in {<<"s">>, <<"t">>, <<"r", "e">>, <<"v", "e">>, <<"l", "l">>}
           THEN <<"'">> \o tokens[j] ELSE tokens[j]]

\* \b(19|20)\d{2}\b
IsYearToken(tok) ==
    /\ Len(tok) = 4 /\ AllDigits(tok)
    /\ SubSeq(tok, 1, 2) \in {<<"1", "9">>, <<"2", "0">>}
RemoveYears(tokens) ==
    [j \in DOMAIN tokens |-> IF IsYearToken(tokens[j]) THEN <<>> ELSE tokens[j]]

\* replace(/^[^\w]+|[^\w]+$/g, '')
RECURSIVE StripLeft(_)
StripLeft(s) == IF s # <<>> /\ ~IsWordChar(Head(s)) THEN StripLeft(Tail(s)) ELSE s
RECURSIVE StripRight(_)
StripRight(s) ==
    IF s # <<>> /\ ~IsWordChar(s[Len(s)]) THEN StripRight(SubSeq(s, 1, Len(s) - 1)) ELSE s

\* toLowerCase().replace(/\b\w/g, l => l.toUpperCase())
ProperCase(s) ==
    LET lower == ToLowerCase(s)
    IN [i \in DOMAIN lower |->
           IF IsWordChar(lower[i]) /\ (i = 1 \/ ~IsWordChar(lower[i - 1]))
              THEN CharToUpper(lower[i]) ELSE lower[i]]

cleanMovieTitle(title) ==
    IF title = <<>> THEN <<>>
    ELSE LET t1 == RemoveStudios(Split(title), 1)
             t2 == RemovePhrases(t1, 1, FormatWords)
             t3 == RemovePhrases(t2, 1, ScreenWords)
             t4 == RemovePhrases(t3, 1, EditionWords)
             t5 == RemovePhrases(t4, 1, GenreWords)
             t6 == RemovePhrases(t5, 1, FeatureWords)
             t7 == RemovePhrases(t6, 1, ConditionWords)
             t8 == RemoveYears(FixApostrophes(t7))
             t9 == RemovePhrases(t8, 1, RegionWords)
             t10 == RemovePhrases(t9, 1, FrameWords)
             spaced == JoinWords(SelectSeq(t10, LAMBDA tok : tok # <<>>))
             kept == SelectSeq(spaced, LAMBDA ch : IsWordChar(ch) \/ IsSpace(ch)
                                                     \/ ch \in {"&", "'", "-"})
             cleaned == ProperCase(StrTrim(StripRight(StripLeft(kept))))
         IN IF Len(cleaned) < 2 THEN StrTrim(title) ELSE cleaned

\* new Date().getFullYear()
CurrentYear == 2026
\* null for a year
NoYear == 0

\* extractYearFromTitle
extractYearFromTitle(title) ==
    LET tokens == Split(title)
        hits == {j \in DOMAIN tokens : IsYearToken(tokens[j])}
    IN IF hits = {} THEN NoYear
       ELSE LET year == ParseInt(tokens[CHOOSE j \in hits : \A h \in hits : j <= h])
            IN IF year >= 1900 /\ year <= CurrentYear + 2 THEN year ELSE NoYear

\* parseInt(s): the leading digits of s, -1 (NaN) when there are none
RECURSIVE LeadingDigits(_)
LeadingDigits(s) ==
    IF s # <<>> /\ IsDigit(Head(s)) THEN <<Head(s)>> \o LeadingDigits(Tail(s)) ELSE <<>>
ParseIntPrefix(s) == IF LeadingDigits(s) = <<>> THEN -1 ELSE ParseInt(LeadingDigits(s))

\* extractYearFromDate
extractYearFromDate(dateString) ==
    IF dateString = <<>> THEN NoYear
    ELSE LET year == ParseIntPrefix(SubSeq(dateString, 1, Min2(4, Len(dateString))))
         IN IF year >= 1900 /\ year <= 2030 THEN year ELSE NoYear

\* ---- cast and director hints.  The patterns are matched on whole tokens of a
\* cleaned title: a name is a run of two or more words of two or more letters.
IsNameWord(tok) == Len(tok) >= 2 /\ \A i \in DOMAIN tok : IsLetter(tok[i])
\* the longest run of name words starting at token i
RECURSIVE NameRun(_, _)
NameRun(tokens, i) ==
    IF i <= Len(tokens) /\ IsNameWord(tokens[i]) THEN 1 + NameRun(tokens, i + 1) ELSE 0

AddName(names, name) ==
    IF Len(name) > 3 /\ name \notin Range(names) THEN Append(names, name) ELSE names

\* /keyword\s+(Name(?:\s+Name)+)/gi
RECURSIVE NamesAfter(_, _, _, _)
NamesAfter(tokens, i, keyword, names) ==
    IF i > Len(tokens) THEN names
    ELSE LET k == Len(keyword)
             n == NameRun(tokens, i + k)
         IN IF PhraseAt(tokens, i, keyword) /\ n >= 2
               THEN NamesAfter(tokens, i + k + n, keyword,
                        AddName(names, JoinWords(SubSeq(tokens, i + k, i + k + n - 1))))
               ELSE NamesAfter(tokens, i + 1, keyword, names)

\* /(Name(?:\s+Name)+)\s+keyword/gi
RECURSIVE NamesBefore(_, _, _, _)
NamesBefore(tokens, i, keyword, names) ==
    IF i > Len(tokens) THEN names
    ELSE LET ends == {j \in (i + 1)..(i + NameRun(tokens, i) - 1) :
                         PhraseAt(tokens, j + 1, keyword)}
         IN IF ends = {} THEN NamesBefore(tokens, i + 1, keyword, names)
            ELSE LET j == CHOOSE e \in ends : \A o \in ends : o <= e
                 IN NamesBefore(tokens, j + 2, keyword,
                        AddName(names, JoinWords(SubSeq(tokens, i, j))))

extractActorNames(title) ==
    LET tokens == Words(title)
        a1 == NamesAfter(tokens, 1, <<"starring">>, <<>>)
        a2 == NamesAfter(tokens, 1, <<"with">>, a1)
        a3 == NamesBefore(tokens, 1, <<"in">>, a2)
    IN NamesAfter(tokens, 1, <<"featuring">>, a3)

extractDirectorHints(title) ==
    LET tokens == Words(title)
        d1 == NamesAfter(tokens, 1, <<"directed", "by">>, <<>>)
        d2 == NamesBefore(tokens, 1, <<"film">>, d1)
        d3 == NamesBefore(tokens, 1, <<"movie">>, d2)
    IN NamesAfter(tokens, 1, <<"from">>, d3)

\* title.replace(actor, ''): the first occurrence
ReplaceFirst(s, part) ==
    LET at == {i \in 1..(Len(s) - Len(part) + 1) : SubSeq(s, i, i + Len(part) - 1) = part}
    IN IF at = {} THEN s
       ELSE LET i == CHOOSE a \in at : \A o \in at : a <= o
            IN SubSeq(s, 1, i - 1) \o SubSeq(s, i + Len(part), Len(s))

\* ---- search results.  popularity and vote_average are held in tenths; an
\* absent string property is <<>>, an absent matchScore is Undefined.
Undefined == <<>>
Quote == "\""
Strategy(query, priority) == [query |-> query, priority |-> priority]

\* the searchStrategies list of _searchTMDB
searchStrategies(title, year, exactMatch) ==
    LET quoted == <<Quote>> \o title \o <<Quote>>
    IN (IF year # NoYear
           THEN <<Strategy(quoted \o <<" ">> \o IntToString(year), "high"),
                  Strategy(title \o <<" ">> \o IntToString(year), "medium")>>
           ELSE <<>>)
       \o <<Strategy(quoted, "medium")>>
       \o (IF exactMatch THEN <<>> ELSE <<Strategy(title, "low")>>)
       \o [k \in DOMAIN extractActorNames(title) |->
             LET actor == extractActorNames(title)[k]
             IN Strategy(actor \o <<" ">> \o StrTrim(ReplaceFirst(title, actor)), "medium")]
       \o [k \in DOMAIN extractDirectorHints(title) |->
             Strategy(title \o <<" ">> \o extractDirectorHints(title)[k], "medium")]

\* a || b for strings
OrElse(a, b) == IF a # <<>> THEN a ELSE b
ItemTitle(item) == OrElse(item.title, item.name)
ItemDate(item) == OrElse(item.release_date, item.first_air_date)

\* the score findBestTMDBMatch gives one item
MatchScore(item, originalTitle, targetYear) ==
    LET itemYear == extractYearFromDate(ItemDate(item))
        titleScore == calculateTitleSimilarity(originalTitle, ItemTitle(item))
        yearDiff == Abs(targetYear - itemYear)
        yearScore == IF targetYear # NoYear /\ itemYear # NoYear
                        THEN (IF yearDiff = 0 THEN 30
                              ELSE IF yearDiff = 1 THEN 20
                              ELSE IF yearDiff <= 3 THEN 10 ELSE 0)
                        ELSE 0
        popularityScore == RMin(Rat(item.popularity, 100), Whole(15))
        typeScore == IF item.media_type = "movie" THEN 10 ELSE 0
        voteScore == RMin(Rat(item.vote_average, 20), Whole(5))
    IN RAdd(RAdd(RAdd(titleScore, Whole(yearScore + typeScore)), popularityScore),
            voteScore)

\* findBestTMDBMatch: a single result is returned as it is; otherwise every
\* result is scored and the stable descending sort puts the first of the
\* highest-scored results in front.
ScoredResults(results, originalTitle, targetYear) ==
    [k \in DOMAIN results |->
        [results[k] EXCEPT
            !.matchScore = MatchScore(results[k], originalTitle, targetYear),
            !.matchYear = extractYearFromDate(ItemDate(results[k]))]]
FirstOfBest(scored) ==
    scored[CHOOSE k \in DOMAIN scored :
              /\ \A o \in DOMAIN scored :
                    ~RLess(scored[k].matchScore, scored[o].matchScore)
              /\ \A o \in 1..(k - 1) :
                    RLess(scored[o].matchScore, scored[k].matchScore)]
findBestTMDBMatch(results, originalTitle, targetYear) ==
    IF Len(results) = 1 THEN results[1]
    ELSE FirstOfBest(ScoredResults(results, originalTitle, targetYear))

\* result.matchScore || 0
ScoreOrZero(matchScore) == IF matchScore = Undefined THEN Whole(0) ELSE matchScore

\* scoreSearchResult
scoreSearchResult(result, originalTitle, targetYear, strategyPriority) ==
    LET priorityBonus == IF strategyPriority = "high" THEN 20
                         ELSE IF strategyPriority = "medium" THEN 10 ELSE 0
        resultTitle == ToLowerCase(ItemTitle(result))
        cleanOriginal == StrTrim(ToLowerCase(originalTitle))
        exactBonus == IF resultTitle = cleanOriginal THEN 25 ELSE 0
        yearBonus == IF targetYear # NoYear
                        /\ extractYearFromDate(ItemDate(result)) = targetYear
                        THEN 20 ELSE 0
        lowPopularity == IF result.popularity # 0 /\ result.popularity < 10 THEN -10 ELSE 0
        voteBonus == IF result.vote_count > 100 THEN 5 ELSE 0
    IN RMax(Whole(0),
            RAdd(ScoreOrZero(result.matchScore),
                 Whole(priorityBonus + exactBonus + yearBonus + lowPopularity + voteBonus)))

\* needsManualReview; null (no candidate) is the record with no id.
needsManualReviewAtThreshold(bestMatch, originalTitle, targetYear) ==
    LET score == ScoreOrZero(bestMatch.matchScore)
        resultYear == extractYearFromDate(ItemDate(bestMatch))
    IN \/ bestMatch.id = Undefined
       \/ bestMatch.needsManualReview
       \/ ~RLess(Whole(35), score)
       \/ /\ targetYear # NoYear
          /\ (resultYear = NoYear \/ Abs(resultYear - targetYear) > 2)
       \/ bestMatch.popularity # 0 /\ bestMatch.popularity < 5
needsManualReview(bestMatch, originalTitle, targetYear) ==
    LET score == ScoreOrZero(bestMatch.matchScore)
        resultYear == extractYearFromDate(ItemDate(bestMatch))
    IN \/ bestMatch.id = Undefined
       \/ bestMatch.needsManualReview
       \/ RLess(score, Whole(35))
       \/ /\ targetYear # NoYear
          /\ (resultYear = NoYear \/ Abs(resultYear - targetYear) > 2)
       \/ bestMatch.popularity # 0 /\ bestMatch.popularity < 5

\* ==== MediaLookupUtils requests ====

(***************************************************************************)
(* MediaLookupUtils: lookupUPCData, searchTMDBForTitle, _searchTMDB,       *)
(* completeMovieLookup and clearCaches.  persistentCache is the            *)
(* CacheManager above.                                                     *)
(***************************************************************************)
MaxLookups == 2

Barcodes == {"012345678905"}

\* items[0].title as the UPC service may report it
TitleHeatDvd == <<"H", "e", "a", "t", " ", "D", "V", "D">>
ProductTitles == {TitleHeatDvd, <<>>}
\* a title with a year in it, for the strategies that search with the year
TitleHeat1995 ==
    <<"H", "e", "a", "t", " ", "1", "9", "9", "5", " ", "D", "V", "D">>
DatedTitles == ProductTitles \cup {TitleHeat1995}

\* what the UPC service may answer: fetch rejects, a non-OK status, a code
\* other than "OK", no items, or one item
UPCResponses ==
    {[kind |-> k, title |-> <<>>] : k \in {"throw", "nonOK", "badCode", "noItems"}}
    \cup {[kind |-> "ok", title |-> t] : t \in ProductTitles}

\* the catalogue behind /search/multi
DateHeat == <<"1", "9", "9", "5", "-", "1", "2", "-", "1", "5">>
DateWave == <<"1", "9", "9", "0", "-", "0", "1", "-", "0", "1">>
Item(id, type, title, name, released, aired, popularity, average, count) ==
    [id |-> id, media_type |-> type, title |-> title, name |-> name,
     release_date |-> released, first_air_date |-> aired, popularity |-> popularity,
     vote_average |-> average, vote_count |-> count, matchScore |-> Undefined,
     matchYear |-> NoYear, needsManualReview |-> FALSE]
HeatMovie == Item(<<"9", "4", "9">>, "movie", <<"H", "e", "a", "t">>, <<>>, DateHeat, <<>>,
                  300, 82, 5000)
HeatWave == Item(<<"7", "1">>, "tv", <<>>, <<"H", "e", "a", "t", " ", "W", "a", "v", "e">>,
                 <<>>, DateWave, 4, 60, 10)
Person == Item(<<"5">>, "person", <<>>, <<"A", "l">>, <<>>, <<>>, 20, 0, 0)

SearchResults == {<<>>, <<Person>>, <<HeatWave, HeatMovie>>}
\* and with the lists of one item, which findBestTMDBMatch returns unscored
ShortResults == SearchResults \cup {<<HeatMovie>>, <<HeatWave>>}
\* and with a second film of the same title that is rated lower
HeatRemake == [HeatMovie EXCEPT !.id = <<"9", "5", "0">>, !.vote_average = 60]
RankedResults == ShortResults \cup {<<HeatWave, HeatRemake>>}
SearchResponses ==
    {[kind |-> k, results |-> <<>>] : k \in {"throw", "nonOK"}}
    \cup {[kind |-> "ok", results |-> r] : r \in SearchResults}
DetailResponses == {"throw", "nonOK", "ok"}

\* null for bestResult and for a value not there yet
NoResult == [id |-> <<>>]
Failure(message) == [error |-> message]

\* `upc_${barcode}`
upcKey(barcode) == "upc_" \o barcode

\* replace(/\s+/g, '_')
RECURSIVE Underscored(_, _)
Underscored(s, i) ==
    IF i > Len(s) THEN <<>>
    ELSE IF IsSpace(s[i])
            THEN (IF i > 1 /\ IsSpace(s[i - 1]) THEN <<>> ELSE <<"_">>) \o Underscored(s, i + 1)
            ELSE <<s[i]>> \o Underscored(s, i + 1)

\* `tmdb_${searchStrategy}_${title.toLowerCase().replace(/\s+/g, '_')}_${year || 'no_year'}`
tmdbKey(title, year, exactMatch) ==
    "tmdb_" \o (IF exactMatch THEN "exact" ELSE "fuzzy") \o "_"
    \o Text(Underscored(ToLowerCase(title), 1)) \o "_"
    \o (IF year = NoYear THEN "no_year" ELSE Text(IntToString(year)))

\* JSON.stringify(item): the stored text and its length
UpcBytes == 100
TmdbBytes == 200
Stored(cacheType, value) ==
    [id |-> value,
     bytes |-> IF cacheType = "upc" THEN UpcBytes ELSE TmdbBytes]

\* the priority of each entry of the searchStrategies list
PrioritiesOf(list) == [k \in DOMAIN list |-> list[k].priority]

\* a new _fetchUPCData / _searchTMDB invocation; waiters are the callers whose
\* await hangs on its promise, in the order they came
Operation(kind, key, barcode, title, year) ==
    [kind |-> kind, key |-> key, state |-> "running",
     phase |-> IF kind # "tmdb" THEN "fetch"
               ELSE IF StrTrim(title) = <<>> THEN "invalid" ELSE "search",
     barcode |-> barcode, title |-> title, year |-> year,
     priorities |-> IF kind # "tmdb" \/ StrTrim(title) = <<>> THEN <<>>
                    ELSE PrioritiesOf(searchStrategies(title, year, FALSE)),
     idx |-> 1, broke |-> FALSE, bestResult |-> NoResult, bestScore |-> Whole(0),
     details |-> 0, value |-> NoResult, waiters |-> <<>>]

\* Steps 2 and 3 of completeMovieLookup for each title the UPC service can
\* report: the cleaned title, the year, the search key and the search that
\* would start.
Plan(cleanTitle, extractedYear) ==
    [cleanTitle |-> cleanTitle, extractedYear |-> extractedYear,
     key |-> tmdbKey(cleanTitle, extractedYear, FALSE),
     operation |-> Operation("tmdb", tmdbKey(cleanTitle, extractedYear, FALSE), "",
                             cleanTitle, extractedYear)]
Derived ==
    [originalTitle \in DatedTitles |->
        Plan(cleanMovieTitle(originalTitle), extractYearFromTitle(originalTitle))]

\* if (cached): get returns the stored data or null, and only null has no bytes
Truthy(data) == data.bytes # Null.bytes

\* this.pendingRequests.has(cacheKey)
HasPending(pending, key) == key \in DOMAIN pending

\* No cache has the key: the caller gets the pending promise, or a new
\* invocation starts and is registered.
Joined(m, key, operation, i) ==
    IF HasPending(m.pending, key)
       THEN [m |-> [m EXCEPT !.ops[m.pending[key]].waiters = Append(@, i)],
             op |-> m.pending[key], value |-> NoResult]
       ELSE [m |-> [m EXCEPT !.ops = Append(@, [operation EXCEPT !.waiters = <<i>>]),
                             !.pending = MapPut(@, key, Len(m.ops) + 1)],
             op |-> Len(m.ops) + 1, value |-> NoResult]

\* after persistentCache.get(cacheType, cacheKey) gave got
Fetched(m, cacheType, key, operation, i, got) ==
    IF Truthy(got.value)
       THEN [m |-> [m EXCEPT !.cache = got.cache,
                             !.session = MapPut(@, key, got.value.id),
                             !.order = IF <<cacheType, key>> \in IndexedSlots(m.cache.index)
                                          THEN Touch(@, <<cacheType, key>>) ELSE @],
             op |-> 0, value |-> got.value.id]
       ELSE Joined([m EXCEPT !.cache = got.cache], key, operation, i)

\* The synchronous part of lookupUPCData / searchTMDBForTitle: session cache,
\* persistent cache, pending request, new request.  m is MediaLookupUtils with
\* its persistent cache; the result names the operation the caller awaits (0
\* when the value came from a cache).  i is the calling lookup.
Request(m, cacheType, key, operation, t, i) ==
    IF key \in DOMAIN m.session
       THEN [m |-> m, op |-> 0, value |-> m.session[key]]
       ELSE Fetched(m, cacheType, key, operation, i, Get(m.cache, cacheType, key, t))

MediaLookup ==
    [session |-> sessionCache, pending |-> pendingRequests, ops |-> ops,
     lookups |-> lookups, returned |-> <<>>, cache |-> Cache, order |-> useOrder]

\* What is left of an invocation that has settled and whose awaiters have run:
\* nothing but its place in the start order.
Retired(op) ==
    IF op.state = "running" THEN op
    ELSE [Operation("done", "", "", <<>>, NoYear) EXCEPT !.state = "settled",
                                                         !.phase = "done"]

InstallLookup(m) ==
    /\ sessionCache' = m.session
    /\ pendingRequests' = m.pending
    /\ ops' = [o \in DOMAIN m.ops |-> Retired(m.ops[o])]
    /\ lookups' = m.lookups
    /\ returned' = m.returned
    /\ Install(m.cache, m.order)
    /\ lastValue' = Null
    /\ passOrder' = <<>>

\* finally { this.pendingRequests.delete(cacheKey) }
FinallyKept(pending, key) == pending
Finally(pending, key) == MapRemove(pending, key)

\* The code after `await requestPromise` in lookupUPCData / searchTMDBForTitle,
\* run when operation o settles: write-back on success, clean-up always.
SettleSessionOnly(m, o, op, state, value, t, order) ==
    IF state = "resolved"
       THEN [m EXCEPT !.ops[o] = [op EXCEPT !.state = state, !.value = value],
                      !.session = MapPut(@, op.key, value),
                      !.pending = Finally(@, op.key)]
       ELSE [m EXCEPT !.ops[o] = [op EXCEPT !.state = state, !.value = value],
                      !.pending = Finally(@, op.key)]
Settle(m, o, op, state, value, t, order) ==
    IF state = "resolved"
       THEN [m EXCEPT !.ops[o] = [op EXCEPT !.state = state, !.value = value],
                      !.session = MapPut(@, op.key, value),
                      !.cache = Set(@, op.kind, op.key, Stored(op.kind, value), t,
                                    "ok", TRUE, order),
                      !.order = Touch(@, <<op.kind, op.key>>),
                      !.pending = Finally(@, op.key)]
       ELSE [m EXCEPT !.ops[o] = [op EXCEPT !.state = state, !.value = value],
                      !.pending = Finally(@, op.key)]
Settled(m, o, op, out, t, order) == Settle(m, o, op, out.state, out.value, t, order)

\* _fetchUPCData: the outcome for one answer of the UPC service
fetchUPCDataLenient(barcode, response) ==
    IF response.kind \in {"ok", "noItems"}
       THEN [state |-> "resolved",
             value |-> [barcode |-> barcode, originalTitle |-> response.title]]
       ELSE [state |-> "rejected", value |-> Failure("UPC lookup failed")]
fetchUPCData(barcode, response) ==
    CASE response.kind = "throw" ->
            [state |-> "rejected",
             value |-> Failure("Network error - check your internet connection")]
      [] response.kind = "nonOK" ->
            [state |-> "rejected", value |-> Failure("UPC API returned an error status")]
      [] response.kind \in {"badCode", "noItems"} ->
            [state |-> "rejected", value |-> Failure("No product found for this barcode")]
      [] OTHER ->
            [state |-> "resolved",
             value |-> [barcode |-> barcode, originalTitle |-> response.title]]

\* searchData.results.filter(item => movie or tv)
MediaResults(results) ==
    SelectSeq(results, LAMBDA item : item.media_type \in {"movie", "tv"})

\* findBestTMDBMatch and scoreSearchResult for every result list, search and
\* priority there is
Judge(candidateResult, title, year, priority) ==
    [candidateResult |-> candidateResult,
     score |-> scoreSearchResult(candidateResult, title, year, priority)]
Judged ==
    [results \in {r \in RankedResults : MediaResults(r) # <<>>},
     title \in {cleanMovieTitle(t) : t \in DatedTitles} \ {<<>>},
     year \in {extractYearFromTitle(t) : t \in DatedTitles},
     priority \in {"high", "medium", "low"} |->
        Judge(findBestTMDBMatch(MediaResults(results), title, year), title, year,
              priority)]

\* if (score > bestScore) { ...; if (score > 90 && priority === 'high') break }
ComparedEager(op, judged, priority) ==
    IF RLess(op.bestScore, judged.score)
       THEN [op EXCEPT !.bestScore = judged.score,
                       !.bestResult = judged.candidateResult,
                       !.broke = RLess(Whole(90), judged.score),
                       !.idx = @ + 1]
       ELSE [op EXCEPT !.idx = @ + 1]
ComparedLatest(op, judged, priority) ==
    IF ~RLess(judged.score, op.bestScore)
       THEN [op EXCEPT !.bestScore = judged.score,
                       !.bestResult = judged.candidateResult,
                       !.broke = RLess(Whole(90), judged.score) /\ priority = "high",
                       !.idx = @ + 1]
       ELSE [op EXCEPT !.idx = @ + 1]
Compared(op, judged, priority) ==
    IF RLess(op.bestScore, judged.score)
       THEN [op EXCEPT !.bestScore = judged.score,
                       !.bestResult = judged.candidateResult,
                       !.broke = RLess(Whole(90), judged.score) /\ priority = "high",
                       !.idx = @ + 1]
       ELSE [op EXCEPT !.idx = @ + 1]

\* One pass of the strategy loop of _searchTMDB, for the answer of the search
\* service to the strategy's query.
SearchStrategyAborting(op, response) ==
    IF response.kind # "ok" \/ response.results = <<>>
       \/ MediaResults(response.results) = <<>>
       THEN [op EXCEPT !.idx = @ + 1, !.broke = TRUE, !.bestResult = NoResult,
                       !.bestScore = Whole(0)]
       ELSE Compared(op, Judged[response.results, op.title, op.year, op.priorities[op.idx]],
                     op.priorities[op.idx])
SearchStrategy(op, response) ==
    IF response.kind # "ok" \/ response.results = <<>>
       \/ MediaResults(response.results) = <<>>
       THEN [op EXCEPT !.idx = @ + 1]
       ELSE Compared(op, Judged[response.results, op.title, op.year, op.priorities[op.idx]],
                     op.priorities[op.idx])

\* the loop has ended
LoopDone(op) == op.broke \/ op.idx > Len(op.priorities)

\* the no-result record of _searchTMDB
Placeholder(title, t) ==
    [id |-> <<"u", "p", "c", "_">> \o IntToString(t), media_type |-> "movie",
     title |-> title, name |-> title, release_date |-> <<>>, first_air_date |-> <<>>,
     popularity |-> 0, vote_average |-> 0, vote_count |-> 0, matchScore |-> Whole(0),
     matchYear |-> NoYear, needsManualReview |-> TRUE]

\* the record of /{media_type}/{id} with the match score carried over
FullDetails(bestResult) ==
    [id |-> bestResult.id, media_type |-> bestResult.media_type,
     title |-> bestResult.title, name |-> bestResult.name,
     release_date |-> bestResult.release_date,
     first_air_date |-> bestResult.first_air_date,
     popularity |-> bestResult.popularity, vote_average |-> bestResult.vote_average,
     vote_count |-> bestResult.vote_count, matchScore |-> bestResult.matchScore,
     matchYear |-> NoYear, needsManualReview |-> FALSE]

\* Step 5 of completeMovieLookup: the fallback confidence
YearMatch(tmdbData, extractedYear) ==
    /\ extractedYear # NoYear
    /\ ItemDate(tmdbData) # <<>>
    /\ Abs(extractedYear - extractYearFromDate(ItemDate(tmdbData))) <= 1
Fallback(tmdbData, cleanTitle, extractedYear) ==
    RAdd(RAdd(calculateTitleSimilarity(cleanTitle, ItemTitle(tmdbData)),
              Whole(IF YearMatch(tmdbData, extractedYear) THEN 20 ELSE 0)),
         IF tmdbData.popularity # 0
            THEN RMin(Rat(tmdbData.popularity, 100), Whole(15))
            ELSE Whole(0))

\* the return value of completeMovieLookup
Reviewed(upcData, tmdbData, cleanTitle, extractedYear, confidence) ==
    [upcData |-> upcData, tmdbData |-> tmdbData, cleanTitle |-> cleanTitle,
     extractedYear |-> extractedYear, confidence |-> confidence,
     needsReview |-> needsManualReview(tmdbData, cleanTitle, extractedYear)]
\* tmdbData.matchScore = confidence
Rescored(upcData, tmdbData, cleanTitle, extractedYear, confidence) ==
    Reviewed(upcData, [tmdbData EXCEPT !.matchScore = confidence], cleanTitle,
             extractedYear, confidence)
Resolution(upcData, tmdbData, cleanTitle, extractedYear) ==
    IF ScoreOrZero(tmdbData.matchScore) = Whole(0)
       THEN Rescored(upcData, tmdbData, cleanTitle, extractedYear,
                     Fallback(tmdbData, cleanTitle, extractedYear))
       ELSE Reviewed(upcData, tmdbData, cleanTitle, extractedYear,
                     ScoreOrZero(tmdbData.matchScore))

\* a completeMovieLookup invocation at its first await
Lookup(barcode, op, value) ==
    [barcode |-> barcode, pc |-> "upc", op |-> op, value |-> value,
     upcData |-> NoResult, cleanTitle |-> <<>>, extractedYear |-> NoYear,
     key |-> upcKey(barcode)]

\* The invocation ends: the caller has the outcome and the locals are gone.
Return(m, i, state, value) ==
    [m EXCEPT !.lookups[i] = [Lookup(@.barcode, 0, NoResult) EXCEPT !.pc = "done"],
              !.returned = Append(@, [lookup |-> i, state |-> state, value |-> value])]

\* A job of the microtask queue: the continuation of lookup id after its
\* await, or the rejection of operation id that threw at its start.
Job(kind, id) == [kind |-> kind, id |-> id]
WakeWaiters(op) == [k \in DOMAIN op.waiters |-> Job("resume", op.waiters[k])]

\* The outcome a caller sees when its await ends
Awaited(m, lookup) ==
    IF lookup.op = 0 THEN [state |-> "resolved", value |-> lookup.value]
    ELSE [state |-> m.ops[lookup.op].state, value |-> m.ops[lookup.op].value]

\* completeMovieLookup resumes after `await this.lookupUPCData(barcode)`: steps
\* 2 and 3 up to the next await.  r is what searchTMDBForTitle did at once and
\* before the number of invocations there were.
Searching(i, upcData, derived, r, before) ==
    [m |-> [r.m EXCEPT !.lookups[i] =
               [@ EXCEPT !.pc = "tmdb", !.op = r.op, !.value = r.value,
                         !.upcData = upcData, !.cleanTitle = derived.cleanTitle,
                         !.extractedYear = derived.extractedYear,
                         !.key = derived.key]],
     jobs |-> IF r.op = 0 THEN <<Job("resume", i)>>
              ELSE IF r.op > before /\ r.m.ops[r.op].phase = "invalid"
                      THEN <<Job("reject", r.op)>>
              ELSE <<>>]
Planned(m, i, upcData, derived, t) ==
    Searching(i, upcData, derived,
              Request(m, "tmdb", derived.key, derived.operation, t, i),
              Len(m.ops))
AfterUPC(m, i, upcData, t) == Planned(m, i, upcData, Derived[upcData.originalTitle], t)

\* completeMovieLookup resumes after `await this.searchTMDBForTitle(...)`:
\* steps 4 and 5 and the return.  tmdbData.matchScore = confidence writes to the
\* object itself, which the session cache and the settled promise hold too.
Delivered(m, i, lookup, tmdbData, result) ==
    Return([m EXCEPT !.session = IF lookup.key \in DOMAIN @ /\ @[lookup.key] = tmdbData
                                    THEN MapPut(@, lookup.key, result.tmdbData) ELSE @,
                     !.ops = IF lookup.op = 0 THEN @
                             ELSE [@ EXCEPT ![lookup.op].value = result.tmdbData]],
           i, "resolved", result)
Resolved(m, i, lookup, tmdbData) ==
    Delivered(m, i, lookup, tmdbData,
              Resolution(lookup.upcData, tmdbData, lookup.cleanTitle,
                         lookup.extractedYear))
AfterTMDB(m, i, tmdbData) == [m |-> Resolved(m, i, m.lookups[i], tmdbData), jobs |-> <<>>]

\* the continuation of lookup i, for what its await gave
Resumed(m, i, got, t) ==
    IF got.state = "rejected"
       THEN [m |-> Return(m, i, "rejected", got.value), jobs |-> <<>>]
       ELSE IF m.lookups[i].pc = "upc" THEN AfterUPC(m, i, got.value, t)
       ELSE AfterTMDB(m, i, got.value)
Resume(m, i, t) == Resumed(m, i, Awaited(m, m.lookups[i]), t)

\* The microtask queue runs empty before the next event is taken.
RECURSIVE Drain(_, _, _)
Continue(r, jobs, t) == Drain(r.m, jobs \o r.jobs, t)
Drain(m, jobs, t) ==
    IF jobs = <<>> THEN m
    ELSE IF Head(jobs).kind = "resume"
            THEN Continue(Resume(m, Head(jobs).id, t), Tail(jobs), t)
            ELSE Drain(Settle(m, Head(jobs).id, m.ops[Head(jobs).id], "rejected",
                              Failure("No title to search"), t, <<>>),
                       Tail(jobs) \o WakeWaiters(m.ops[Head(jobs).id]), t)

InitLookup ==
    /\ initialized = FALSE
    /\ continuous = FALSE
    /\ allowDuplicates = TRUE
    /\ isScanning = FALSE
    /\ isPaused = FALSE
    /\ scannedBarcodes = {}
    /\ processingBarcodes = <<>>
    /\ lastScanTime = 0
    /\ calls = <<>>
    /\ readyTimers = {}
    /\ events = <<>>
    /\ storage = <<>>
    /\ cacheIndex = <<>>
    /\ stats = [hits |-> 0, misses |-> 0, sets |-> 0, evictions |-> 0]
    /\ evicted = <<>>
    /\ lastValue = Null
    /\ useOrder = <<>>
    /\ passOrder = <<>>
    /\ opCalls = 0
    /\ sessionCache = <<>>
    /\ pendingRequests = <<>>
    /\ ops = <<>>
    /\ lookups = <<>>
    /\ returned = <<>>
    /\ now = StartTime
    /\ probe = NoProbe

\* completeMovieLookup(barcode) is called: lookupUPCData up to its await, and
\* on a cache hit all that follows from it.
Called(i, barcode, r, t) ==
    Drain([r.m EXCEPT !.lookups = Append(@, Lookup(barcode, r.op, r.value))],
          IF r.op = 0 THEN <<Job("resume", i)>> ELSE <<>>, t)
CompleteMovieLookup(barcode) ==
    /\ Len(lookups) < MaxLookups
    /\ InstallLookup(Called(Len(lookups) + 1, barcode,
                            Request(MediaLookup, "upc", upcKey(barcode),
                                    Operation("upc", upcKey(barcode), barcode, <<>>,
                                              NoYear),
                                    now, Len(lookups) + 1),
                            now))
    /\ UNCHANGED <<opCalls, now, probe, scannerVars>>

\* The UPC service answers operation o: lookupUPCData's owner continues, then
\* every caller that awaited it.
UPCSettle(o, response, order) ==
    /\ o \in DOMAIN ops
    /\ ops[o].state = "running" /\ ops[o].kind = "upc"
    /\ InstallLookup(Drain(Settled(MediaLookup, o, ops[o],
                                   fetchUPCData(ops[o].barcode, response), now, order),
                           WakeWaiters(ops[o]), now))
    /\ UNCHANGED <<opCalls, now, probe, scannerVars>>

\* _searchTMDB past its loop, at the detail request: of the loop's variables
\* only bestResult is read from here on.
AwaitDetails(op) ==
    [Operation(op.kind, op.key, op.barcode, op.title, op.year) EXCEPT
        !.phase = "details", !.details = op.details + 1, !.bestResult = op.bestResult,
        !.priorities = <<>>, !.waiters = op.waiters]

\* After a pass of the loop: the next strategy's request, the detail request,
\* or the placeholder and with it the end of searchTMDBForTitle.
Stepped(m, o, op, t, order) ==
    IF ~LoopDone(op) THEN [m EXCEPT !.ops[o] = op]
    ELSE IF op.bestResult = NoResult
            THEN Drain(Settle(m, o, op, "resolved", Placeholder(op.title, t), t, order),
                       WakeWaiters(op), t)
            ELSE [m EXCEPT !.ops[o] = AwaitDetails(op)]

\* The search service answers the current strategy's query of operation o.
SearchStep(o, response, order) ==
    /\ o \in DOMAIN ops
    /\ ops[o].state = "running" /\ ops[o].kind = "tmdb" /\ ops[o].phase = "search"
    /\ InstallLookup(Stepped(MediaLookup, o, SearchStrategy(ops[o], response), now,
                             order))
    /\ UNCHANGED <<opCalls, now, probe, scannerVars>>

\* The outcome of the detail request
fetchDetailsPartial(bestResult, response) ==
    [state |-> "resolved", value |-> FullDetails(bestResult)]
fetchDetails(bestResult, response) ==
    CASE response = "throw" ->
            [state |-> "rejected",
             value |-> Failure("Network error - check your internet connection")]
      [] response = "nonOK" ->
            [state |-> "rejected",
             value |-> Failure("Failed to load full movie details from TMDB")]
      [] OTHER -> [state |-> "resolved", value |-> FullDetails(bestResult)]

\* The detail service answers; searchTMDBForTitle's owner continues, then
\* every caller that awaited the search.
DetailSettle(o, response, order) ==
    /\ o \in DOMAIN ops
    /\ ops[o].state = "running" /\ ops[o].kind = "tmdb" /\ ops[o].phase = "details"
    /\ InstallLookup(Drain(Settled(MediaLookup, o, ops[o],
                                   fetchDetails(ops[o].bestResult, response), now,
                                   order),
                           WakeWaiters(ops[o]), now))
    /\ UNCHANGED <<opCalls, now, probe, scannerVars>>

\* clearCaches: persistentCache.clearAll is not a function of CacheManager, so
\* the call throws after the two maps are emptied.
ClearCaches ==
    /\ sessionCache' = <<>>
    /\ pendingRequests' = <<>>
    /\ returned' = <<>>
    /\ UNCHANGED <<ops, lookups, cacheVars, now, probe, scannerVars>>

\* The orders Object.keys(localStorage) may have when a write of that many
\* bytes is followed by an eviction pass; below the ceiling the pass returns
\* before it lists the keys.
PassOrders(cacheType, bytes) ==
    IF GetTotalSize(Cache) + bytes >= maxSizeBytes
       THEN KeyOrders(DOMAIN cacheIndex \cup {cacheType})
       ELSE {<<>>}

NextLookup ==
    \/ \E barcode \in Barcodes : CompleteMovieLookup(barcode)
    \/ \E o \in 1..(2 * MaxLookups), response \in UPCResponses,
          order \in PassOrders("upc", UpcBytes) :
            UPCSettle(o, response, order)
    \/ \E o \in 1..(2 * MaxLookups), response \in SearchResponses,
          order \in PassOrders("tmdb", TmdbBytes) :
            SearchStep(o, response, order)
    \/ \E o \in 1..(2 * MaxLookups), response \in DetailResponses,
          order \in PassOrders("tmdb", TmdbBytes) :
            DetailSettle(o, response, order)
    \/ ClearCaches

SpecLookup == InitLookup /\ [][NextLookup]_vars

\* One completeMovieLookup at a time, each called when the requests of the one
\* before have settled, for titles with and without a year and result lists of
\* one item and of several.
Idle == \A o \in DOMAIN ops : ops[o].state # "running"
DatedResponses ==
    {r \in UPCResponses : r.kind # "ok"}
    \cup {[kind |-> "ok", title |-> t] : t \in DatedTitles}
ShortResponses ==
    {r \in SearchResponses : r.kind # "ok"}
    \cup {[kind |-> "ok", results |-> r] : r \in ShortResults}
NextSearch ==
    \/ \E barcode \in Barcodes : Idle /\ CompleteMovieLookup(barcode)
    \/ \E o \in 1..(2 * MaxLookups), response \in DatedResponses,
          order \in PassOrders("upc", UpcBytes) :
            UPCSettle(o, response, order)
    \/ \E o \in 1..(2 * MaxLookups), response \in ShortResponses,
          order \in PassOrders("tmdb", TmdbBytes) :
            SearchStep(o, response, order)
    \/ \E o \in 1..(2 * MaxLookups), response \in DetailResponses,
          order \in PassOrders("tmdb", TmdbBytes) :
            DetailSettle(o, response, order)
    \/ Idle /\ ClearCaches

SpecSearch == InitLookup /\ [][NextSearch]_vars

(***************************************************************************)
(* Properties of MediaLookupUtils                                          *)
(***************************************************************************)
Running(o) == o \in DOMAIN ops /\ ops[o].state = "running"
OperationIds == 1..(2 * MaxLookups)

\* C1: while an invocation of _fetchUPCData or _searchTMDB for a key is in
\* flight, every call for that key joins it, so that no two invocations for
\* one key are ever in flight together.  lookupUPCData(b), clearCaches(),
\* lookupUPCData(b) starts two.
C1_OneOperationPerKey ==
    \A a, b \in DOMAIN ops :
        (Running(a) /\ Running(b) /\ ops[a].key = ops[b].key) => a = b

\* C7: a completeMovieLookup that returns the placeholder of _searchTMDB
\* returns it with the cleaned title as its name, matchScore 0 and
\* needsManualReview set, and with needsReview set in the output.  The
\* fallback of step 5 gives the placeholder the score 40.
C7_PlaceholderUnscored ==
    \A k \in DOMAIN returned :
        (returned[k].state = "resolved" /\ returned[k].value.tmdbData.needsManualReview)
        => /\ returned[k].value.tmdbData.name = returned[k].value.cleanTitle
           /\ returned[k].value.tmdbData.matchScore = Whole(0)
           /\ returned[k].value.needsReview

\* what a step gave the callers that awaited operation o
RejectedAll(waiters, gave) ==
    /\ Len(gave) = Len(waiters)
    /\ \A k \in DOMAIN waiters :
          \E j \in DOMAIN gave : gave[j].lookup = waiters[k] /\ gave[j].state = "rejected"
\* no invocation started, and none but o moved
OthersIdle(o) ==
    /\ Len(ops') = Len(ops)
    /\ \A p \in DOMAIN ops : (p # o /\ Running(p)) => ops'[p] = ops[p]
NothingWritten ==
    sessionCache' = sessionCache /\ storage' = storage /\ cacheIndex' = cacheIndex

\* C8: when the UPC service answers non-OK, with a code other than "OK" or
\* with no items, every completeMovieLookup that awaited the request rejects,
\* no search and no detail request is started, neither cache tier is written,
\* and pendingRequests has no entry for the barcode's key afterwards.
UPCFailures == {r \in UPCResponses : r.kind \in {"nonOK", "badCode", "noItems"}}
C8_UPCFailureTerminal ==
    [][\A o \in OperationIds, response \in UPCFailures,
          order \in PassOrders("upc", UpcBytes) :
            UPCSettle(o, response, order)
            => /\ RejectedAll(ops[o].waiters, returned')
               /\ OthersIdle(o)
               /\ NothingWritten
               /\ ops[o].key \notin DOMAIN pendingRequests']_vars
C8_Witness ==
    /\ Len(returned) = 2
    /\ \A j \in DOMAIN returned :
          /\ returned[j].state = "rejected"
          /\ returned[j].value = Failure("No product found for this barcode")
    /\ Len(ops) = 1
    /\ storage = <<>> /\ sessionCache = <<>> /\ pendingRequests = <<>>

\* C9: when the detail request for the winning candidate fails, every
\* completeMovieLookup that awaited the search rejects, neither cache tier is
\* written, and pendingRequests has no entry for the search key afterwards,
\* so that the next call for the key starts a search again.
C9_DetailFailureSurfaced ==
    [][\A o \in OperationIds, response \in {"throw", "nonOK"},
          order \in PassOrders("tmdb", TmdbBytes) :
            DetailSettle(o, response, order)
            => /\ ops[o].bestResult # NoResult
               /\ RejectedAll(ops[o].waiters, returned')
               /\ OthersIdle(o)
               /\ NothingWritten
               /\ ops[o].key \notin DOMAIN pendingRequests']_vars
C9_Witness ==
    /\ \E j \in DOMAIN returned :
          /\ returned[j].state = "rejected"
          /\ returned[j].value = Failure("Failed to load full movie details from TMDB")
    /\ \A slot \in DOMAIN storage : slot[1] = "upc"
    /\ DOMAIN sessionCache = {upcKey(b) : b \in Barcodes}
    /\ pendingRequests = <<>>

\* C10: a strategy whose search throws, answers non-OK, gives an empty list
\* or gives no movie or tv item is skipped: the best candidate and its score
\* stay what they were, the next strategy is tried when there is one, and
\* after the last the search goes on to the detail request for the candidate
\* it has, or resolves with the placeholder; it never rejects.
SearchFailures ==
    {r \in SearchResponses : r.kind # "ok" \/ MediaResults(r.results) = <<>>}
C10_StrategyFailureSkipped ==
    [][\A o \in OperationIds, response \in SearchFailures,
          order \in PassOrders("tmdb", TmdbBytes) :
            SearchStep(o, response, order)
            => IF ops[o].idx < Len(ops[o].priorities)
                  THEN ops'[o] = [ops[o] EXCEPT !.idx = @ + 1]
                  ELSE IF ops[o].bestResult # NoResult
                          THEN /\ ops'[o].state = "running" /\ ops'[o].phase = "details"
                               /\ ops'[o].bestResult = ops[o].bestResult
                               /\ returned' = <<>>
                          ELSE /\ Len(returned') = Len(ops[o].waiters)
                               /\ \A j \in DOMAIN returned' :
                                     /\ returned'[j].state = "resolved"
                                     /\ returned'[j].value.tmdbData.needsManualReview]_vars
C10_Witness ==
    \E o \in DOMAIN ops :
        /\ Running(o) /\ ops[o].kind = "tmdb" /\ ops[o].phase = "search"
        /\ ops[o].idx = 2 /\ ops[o].bestResult = NoResult

\* the queries _searchTMDB would send for the title and year of a search
QueriesOf(op) ==
    [k \in DOMAIN op.priorities |->
        Text(searchStrategies(op.title, op.year, FALSE)[k].query)]
\* the score of the strategy of op that the response answers
StrategyScore(op, response) ==
    IF response.kind # "ok" \/ MediaResults(response.results) = <<>> THEN Whole(0)
    ELSE Judged[response.results, op.title, op.year, op.priorities[op.idx]].score
InSearch(op) == op.state = "running" /\ op.phase = "search"

\* C11: _searchTMDB sends its queries in the order of the list (quoted title
\* and year, title and year, quoted title, title), one per answer, and leaves
\* the list before its end exactly after a strategy of priority 'high' that
\* scored more than 90.
C11_StrategiesInOrder ==
    [][\A o \in OperationIds, response \in ShortResponses,
          order \in PassOrders("tmdb", TmdbBytes) :
            SearchStep(o, response, order)
            => /\ QueriesOf(ops[o]) =
                    IF ops[o].year # NoYear
                       THEN <<"\"Heat\" 1995", "Heat 1995", "\"Heat\"", "Heat">>
                       ELSE <<"\"Heat\"", "Heat">>
               /\ ops[o].priorities =
                    IF ops[o].year # NoYear THEN <<"high", "medium", "medium", "low">>
                    ELSE <<"medium", "low">>
               /\ ops[o].idx < Len(ops[o].priorities)
                  => IF ops[o].priorities[ops[o].idx] = "high"
                        /\ RLess(Whole(90), StrategyScore(ops[o], response))
                        THEN ~InSearch(ops'[o])
                        ELSE InSearch(ops'[o]) /\ ops'[o].idx = ops[o].idx + 1]_vars
C11_Witness ==
    \E o \in DOMAIN ops :
        /\ InSearch(ops[o]) /\ ops[o].priorities[1] = "high"
        /\ ops[o].idx = Len(ops[o].priorities) /\ ops[o].bestResult # NoResult

\* C12: a completeMovieLookup that returns a candidate of the search returns
\* it with the matchScore findBestTMDBMatch gives that candidate (title
\* similarity, year, popularity, media type and vote), for a winning result
\* list of any length.  A list of one item is returned unscored, and the
\* fallback of step 5 then scores it by another rule.
C12_ScorePropagated ==
    \A k \in DOMAIN returned :
        (returned[k].state = "resolved" /\ ~returned[k].value.tmdbData.needsManualReview)
        => returned[k].value.tmdbData.matchScore =
              MatchScore(returned[k].value.tmdbData, returned[k].value.cleanTitle,
                         returned[k].value.extractedYear)

\* C13: when a _fetchUPCData or _searchTMDB invocation for a key settles, with
\* a value or with an error, pendingRequests has no entry for the key
\* afterwards; when it settles with an error the step writes neither cache
\* tier, so a key that was in no cache is in none afterwards and the next call
\* for it starts an invocation again.
Cached(session, stored, key) ==
    key \in DOMAIN session \/ \E slot \in DOMAIN stored : slot[2] = key
C13_PendingRemoved ==
    [][/\ \A o \in DOMAIN ops :
             (Running(o) /\ ops'[o].state # "running")
             => ops[o].key \notin DOMAIN pendingRequests'
       /\ \A o \in OperationIds :
             (\/ \E response \in UPCResponses \ {r \in UPCResponses : r.kind = "ok"},
                    order \in PassOrders("upc", UpcBytes) :
                      UPCSettle(o, response, order)
              \/ \E response \in {"throw", "nonOK"},
                    order \in PassOrders("tmdb", TmdbBytes) :
                      DetailSettle(o, response, order))
             => /\ NothingWritten
                /\ ~Cached(sessionCache, storage, ops[o].key)
                   => ~Cached(sessionCache', storage', ops[o].key)]_vars
C13_Witness ==
    /\ Len(ops) = 2 /\ ops[1].state = "settled"
    /\ Running(2) /\ ops[2].kind = "upc"
    /\ DOMAIN pendingRequests = {ops[2].key}
    /\ storage = <<>> /\ sessionCache = <<>>

\* the product record a completeMovieLookup got from lookupUPCData at once
GotAtOnce(i, key) ==
    \/ lookups'[i].pc = "tmdb" /\ lookups'[i].upcData = sessionCache[key]
    \/ \E j \in DOMAIN returned' :
          /\ returned'[j].lookup = i
          /\ \/ returned'[j].state = "rejected"
             \/ returned'[j].value.upcData = sessionCache[key]

Listening == isScanning /\ ~isPaused
InFlight(b) == b \in DOMAIN processingBarcodes

\* C15: a decode event for a barcode whose scan is in flight, arriving while
\* the session scans and is not paused, is answered with a 'processing' status
\* through onStatusUpdate and starts no handler call, however soon after the
\* first scan it comes.  Within minScanInterval the event is dropped with no
\* status at all.
C15_InFlightRejectionShown ==
    [][\A text \in CameraTexts :
          (HandleScanResult(text) /\ Listening /\ InFlight(text))
          => /\ events' = <<Status("processing")>>
             /\ calls' = calls]_vars

\* Every camera scan handed to the handler so far is still in flight, and the
\* last of them was accepted minScanInterval ago or earlier.
AcceptedLongAgo ==
    /\ \E i \in DOMAIN calls : calls[i].source = "camera"
    /\ \A i \in DOMAIN calls :
          calls[i].source = "camera"
          => /\ calls[i].state = "pending"
             /\ InFlight(calls[i].barcode)
             /\ now - processingBarcodes[calls[i].barcode] >= minScanInterval

\* C16: a decode event that arrives, while the session scans and is not
\* paused, minScanInterval or more after the last scan that was handed to the
\* handler is not dropped by the rate limit, whatever events were rejected in
\* between.  lastScanTime is also set by events that pass the rate limit and
\* are rejected afterwards, so such an event is dropped.
C16_RateLimitFromLastAccepted ==
    [][\A text \in CameraTexts :
          (HandleScanResult(text) /\ Listening /\ AcceptedLongAgo)
          => events' # <<>>]_vars

\* C17: in a session constructed with allowDuplicates = false, a decode event
\* or a manual entry for a barcode of scannedBarcodes starts no handler call.
\* The constructor turns false into true, and the barcode is dispatched again.
C17_DuplicatesSuppressed ==
    [][\A text \in CameraTexts \cup ManualTexts :
          (/\ allowDuplicates = ConstructAllowDuplicates(FALSE)
           /\ Trim(text) \in scannedBarcodes
           /\ \/ text \in CameraTexts /\ HandleScanResult(text)
              \/ text \in ManualTexts /\ AddManualBarcode(text))
          => calls' = calls]_vars

\* C18: when the handler call of a camera scan resolves, its barcode leaves
\* processingBarcodes and is in scannedBarcodes; a session that is not
\* continuous is then neither scanning nor paused, a continuous one scans and
\* pauses as before and has a timer due pauseBetweenScans later, which emits
\* the 'ready' status if the session then scans and is not paused.
C18_HandlerSuccess ==
    [][/\ \A i \in 1..MaxCalls :
             (HandlerResolve(i) /\ calls[i].source = "camera")
             => /\ ~InFlight(calls[i].barcode)'
                /\ calls[i].barcode \in scannedBarcodes'
                /\ IF continuous
                      THEN /\ isScanning' = isScanning /\ isPaused' = isPaused
                           /\ now + pauseBetweenScans \in readyTimers'
                      ELSE /\ ~isScanning' /\ ~isPaused'
                           /\ readyTimers' = readyTimers
       /\ \A due \in readyTimers :
             ReadyTimerFire(due)
             => /\ now >= due
                /\ events' = IF Listening THEN <<Status("ready")>> ELSE <<>>]_vars
C18_Witness ==
    /\ continuous /\ Listening
    /\ events = <<Status("ready")>> /\ readyTimers = {}
    /\ processingBarcodes = <<>>
    /\ \E i \in DOMAIN calls :
          /\ calls[i].source = "camera" /\ calls[i].state = "settled"
          /\ calls[i].barcode \in scannedBarcodes
    /\ now >= lastScanTime + pauseBetweenScans

\* C19: when the handler call of an accepted barcode rejects, from the camera
\* or from manual entry, the barcode is not in processingBarcodes afterwards,
\* that scan has not put it into scannedBarcodes, onError is called once, and
\* a continuous session scans as before with a 'ready' timer set.
\* addManualBarcode puts the barcode into scannedBarcodes before it awaits the
\* handler and sets no timer.
C19_HandlerFailure ==
    [][\A i \in 1..MaxCalls :
          (HandlerReject(i) /\ \A j \in DOMAIN calls : j # i => calls[j].barcode # calls[i].barcode)
          => /\ ~InFlight(calls[i].barcode)'
             /\ calls[i].barcode \notin scannedBarcodes'
             /\ Len(events') = 1 /\ events'[1][1] = "error"
             /\ continuous
                => /\ isScanning' = isScanning
                   /\ now + pauseBetweenScans \in readyTimers']_vars

\* C20: while the handler call started by a manual entry of a barcode is
\* unsettled, a camera decode or a manual entry of that barcode starts no
\* handler call.  addManualBarcode never enters the barcode into
\* processingBarcodes, so the second entry is dispatched.
C20_ManualInFlight ==
    [][\A text \in CameraTexts \cup ManualTexts :
          (/\ \E i \in DOMAIN calls :
                 /\ calls[i].source = "manual" /\ calls[i].state = "pending"
                 /\ calls[i].barcode = Trim(text)
           /\ \/ text \in CameraTexts /\ HandleScanResult(text)
              \/ text \in ManualTexts /\ AddManualBarcode(text))
          => calls' = calls]_vars

(***************************************************************************)
(* Claims about the scanner session: validation, sweep, session mode.      *)
(***************************************************************************)
EightToEighteenDigits(s) == Len(s) \in 8..18 /\ \A i \in DOMAIN s : s[i] \in Digits
Malformed == {text \in CameraTexts : ~EightToEighteenDigits(text)}
PastRateLimit == now - lastScanTime >= minScanInterval

FairScanner ==
    /\ WF_vars(\E t \in ScannerInstants : ScannerTick(t))
    /\ WF_vars(\E due \in readyTimers : ReadyTimerFire(due))
    /\ WF_vars(CleanupStaleProcessing)

\* The camera-fed session that is never reset (reset() empties the in-flight
\* set by itself), under that scheduling.
NextSweep ==
    \/ \E cameras \in {0, 1} : Initialize(cameras)
    \/ \E ok \in BOOLEAN : StartCamera(ok)
    \/ StopCamera
    \/ TogglePause
    \/ \E text \in CameraTexts : HandleScanResult(text)
    \/ \E i \in 1..MaxCalls : HandlerResolve(i)
    \/ \E i \in 1..MaxCalls : HandlerReject(i)
    \/ \E due \in readyTimers : ReadyTimerFire(due)
    \/ CleanupStaleProcessing
    \/ \E t \in ScannerInstants : ScannerTick(t)

SpecSweep == InitScanner /\ [][NextSweep]_vars /\ FairScanner

LastInstant == StartTime + 30001
Age(b) == now - processingBarcodes[b]
GrowsStale(b) == InFlight(b) /\ processingBarcodes[b] + staleTimeout < LastInstant
Swept == DOMAIN processingBarcodes \ DOMAIN processingBarcodes'

\* C22: stale-entry recovery.  An in-flight entry that can reach an age above
\* 30 s is eventually removed, also when its handler call never settles; the
\* sweep removes exactly the entries older than 30 s, leaves every entry of
\* 30 s or younger, and never invokes the handler; and once the entry is gone
\* a decode event for the barcode that passes the session and rate-limit
\* gates is dispatched to the handler instead of being rejected as in flight.
C22_StaleRecovery ==
    /\ \A b \in CameraTexts : GrowsStale(b) ~> ~InFlight(b)
    /\ [][/\ CleanupStaleProcessing
             => /\ Swept = {b \in DOMAIN processingBarcodes : Age(b) > staleTimeout}
                /\ calls' = calls
          /\ \A b \in CameraTexts :
                (~InFlight(b) /\ Unsettled(b) # {} /\ IsValidBarcode(b)
                   /\ Listening /\ PastRateLimit /\ HandleScanResult(b))
                => /\ Len(calls') = Len(calls) + 1
                   /\ InFlight(b)']_vars
C22_Witness ==
    \E b \in CameraTexts :
        /\ ~InFlight(b) /\ Unsettled(b) # {} /\ now = LastInstant
        /\ initialized /\ lastScanTime = StartTime
        /\ \A i \in Unsettled(b) : calls[i].source = "camera"
        /\ b \notin scannedBarcodes

\* C23: scans are accepted only while scanning.  A decode event delivered
\* while the session is idle or paused leaves the in-flight set, the completed
\* set, lastScanTime, the mode and the timers as they are, emits no status and
\* no error, and invokes no handler.
C23_IgnoredUnlessScanning ==
    [][\A text \in CameraTexts :
          (~Listening /\ HandleScanResult(text))
          => /\ UNCHANGED <<processingBarcodes, scannedBarcodes, lastScanTime, calls,
                            isScanning, isPaused, readyTimers>>
             /\ events' = <<>>]_vars
C23_Witness ==
    /\ isScanning /\ isPaused /\ events = <<>>
    /\ Len(calls) = 1 /\ calls[1].state = "settled"
    /\ PastRateLimit /\ lastScanTime >= StartTime

\* C24: well-formed session mode.  In every reachable state isPaused implies
\* isScanning, so that the mode is one of idle, scanning and paused.
\* togglePause flips isPaused whenever the session is continuous, whether or
\* not it is scanning, so an idle continuous session becomes paused without
\* scanning.
C24_PausedOnlyWhileScanning == isPaused => isScanning

(***************************************************************************)
(* Claims about the cache: capacity recovery, accounting, statistics.      *)
(***************************************************************************)
\* The cache over call sequences of at most MaxShortOps calls, for the
\* properties of one call that are checked step by step.
MaxShortOps == 3
NextCacheShort == opCalls < MaxShortOps /\ NextCache
SpecCacheShort == InitCache /\ [][NextCacheShort]_vars

HasItem(slot) == slot \in DOMAIN storage
QuotaSets(slot) == PayloadsOf(slot) \X BOOLEAN \X KeyOrders(DOMAIN cacheIndex)

NextCacheStore ==
    \/ NextCacheShort
    \/ opCalls < MaxShortOps /\ CacheGetStats
    \/ \E slot \in Slots : Garble(slot)
SpecCacheStore == InitCache /\ [][NextCacheStore]_vars

\* C26: hit/miss accounting.  Every get increments exactly one of hits and
\* misses, hits exactly when it returns a value; so hits + misses counts the
\* get calls.  A get that finds a corrupt entry removes it and returns
\* nothing, but increments neither counter.
C26_EveryGetCounted ==
    [][\A slot \in Slots :
          CacheGet(slot)
          => /\ stats'.hits + stats'.misses = stats.hits + stats.misses + 1
             /\ stats'.hits = stats.hits + 1 <=> lastValue' # Null]_vars

\* C27: getStats is read-only.  A getStats call (with the getTotalSize it
\* makes) changes no stored item, no index record, in particular no lastUsed
\* value and so not the order in which entries would be evicted, and none of
\* the counters hits, misses, sets, evictions; it returns the recorded total.
C27_StatsReadOnly ==
    [][CacheGetStats
       => /\ UNCHANGED <<storage, cacheIndex, stats, useOrder>>
          /\ \A order \in KeyOrders(DOMAIN cacheIndex) :
                SortByLastUsed(GatherItems(Cache, order))' = SortByLastUsed(GatherItems(Cache, order))
          /\ lastValue'.bytes = GetTotalSize(Cache)]_vars
C27_Witness ==
    /\ lastValue.id = "stats" /\ lastValue.bytes > 0
    /\ Cardinality(IndexedSlots(cacheIndex)) >= 2
    /\ lastValue.bytes = GetTotalSize(Cache)

(***************************************************************************)
(* The functions of MediaLookupUtils that read no field, applied to        *)
(* arguments drawn from the sets below; probe holds the last application.  *)
(***************************************************************************)
Applied(fn, args, value) == [fn |-> fn, args |-> args, value |-> value]

\* candidates: scores around the threshold, popularities around 0.5 (in
\* tenths), release years at distance 0, 2 and 3 from 1995, and none
Date1997 == <<"1", "9", "9", "7", "-", "0", "1", "-", "0", "1">>
Date1998 == <<"1", "9", "9", "8", "-", "0", "1", "-", "0", "1">>
ReviewScores == {Undefined, Whole(34), Rat(349, 10), Whole(35), Whole(90)}
ReviewPopularities == {0, 4, 5, 300}
ReviewDates == {<<>>, DateHeat, Date1997, Date1998}
ReviewCandidates ==
    {NoResult} \cup
    {[HeatMovie EXCEPT !.matchScore = s, !.popularity = p, !.release_date = d,
                       !.needsManualReview = f] :
        s \in ReviewScores, p \in ReviewPopularities, d \in ReviewDates, f \in BOOLEAN}
ReviewYears == {NoYear, 1995}

\* titles: empty, equal after normalization, contained, near and far
TitleHeat == <<"H", "e", "a", "t">>
SimilarityTitles ==
    {<<>>, <<" ">>, <<"T", "h", "e">>, TitleHeat, <<"h", "e", "a", "t">>,
     <<"T", "h", "e", " ", "H", "e", "a", "t">>, <<"H", "e", "a", "t", "!">>,
     <<"H", "e", "a", "t", " ", "W", "a", "v", "e">>,
     <<"H", "o", "t", " ", "W", "a", "v", "e">>, <<"H", "e", "a", "r", "t">>,
     <<"C", "o", "l", "d">>}

ReviewCall(bestMatch, targetYear) ==
    /\ probe' = Applied("needsManualReview", <<bestMatch, TitleHeat, targetYear>>,
                        needsManualReview(bestMatch, TitleHeat, targetYear))
    /\ UNCHANGED <<scannerVars, cacheVars, lookupVars, clockVars>>

SimilarityCall(original, candidate) ==
    /\ probe' = Applied("calculateTitleSimilarity", <<original, candidate>>,
                        calculateTitleSimilarity(original, candidate))
    /\ UNCHANGED <<scannerVars, cacheVars, lookupVars, clockVars>>

\* product titles: plain, with a format token, with a year, with doubled
\* spaces, one letter, and a studio name split by a condition word
CleaningTitles ==
    {<<>>, TitleHeat, <<"x">>, <<" ", "x", " ">>, TitleHeatDvd, TitleHeat1995,
     <<"H", "e", "a", "t", " ", " ", "W", "a", "v", "e">>,
     <<"d", "o", "n", " ", "t">>,
     <<"H", "e", "a", "t", " ", "u", "s", "e", "d">>,
     <<"H", "e", "a", "t", " ", "S", "o", "n", "y", " ", "u", "s", "e", "d", " ",
       "P", "i", "c", "t", "u", "r", "e", "s">>}

CleanCall(title) ==
    /\ probe' = Applied("cleanMovieTitle", <<title>>, cleanMovieTitle(title))
    /\ UNCHANGED <<scannerVars, cacheVars, lookupVars, clockVars>>

\* the strategy loop of _searchTMDB for the answers the search service gives
\* to its queries, in the order of the queries
RECURSIVE StrategyLoop(_, _)
StrategyLoop(op, responses) ==
    IF LoopDone(op) \/ responses = <<>> THEN op
    ELSE StrategyLoop(SearchStrategy(op, Head(responses)), Tail(responses))

RankedResponses ==
    {[kind |-> "throw", results |-> <<>>]}
    \cup {[kind |-> "ok", results |-> r] : r \in RankedResults \ {<<>>}}
AnswersFor(op) ==
    [DOMAIN op.priorities -> RankedResponses]

\* one search, from its first strategy on
SearchCall(op, responses) ==
    /\ probe = NoProbe
    /\ probe' = Applied("_searchTMDB", <<op, responses>>, StrategyLoop(op, responses))
    /\ UNCHANGED <<scannerVars, cacheVars, lookupVars, clockVars>>

NextPure ==
    \/ \E bestMatch \in ReviewCandidates, targetYear \in ReviewYears :
          ReviewCall(bestMatch, targetYear)
    \/ \E original, candidate \in SimilarityTitles : SimilarityCall(original, candidate)
    \/ \E title \in CleaningTitles : CleanCall(title)
    \/ \E title \in {TitleHeatDvd, TitleHeat1995} :
          \E responses \in AnswersFor(Derived[title].operation) :
              SearchCall(Derived[title].operation, responses)

SpecPure == InitLookup /\ [][NextPure]_vars

ReviewApplied == probe.fn = "needsManualReview"
Candidate == probe.args[1]
TargetYear == probe.args[3]
CandidateYear == extractYearFromDate(ItemDate(Candidate))

\* C28: needsManualReview returns true when no candidate is given, when the
\* candidate carries the sentinel flag, when its score is below 35, when a
\* target year is given and the candidate's year differs from it by more than
\* 2, and when its popularity is below 0.5, a popularity of 0 included.  A
\* popularity of 0 is falsy in the code's test, so such a candidate passes.
C28_ReviewCases ==
    (/\ ReviewApplied
     /\ \/ Candidate = NoResult
        \/ Candidate.needsManualReview
        \/ RLess(ScoreOrZero(Candidate.matchScore), Whole(35))
        \/ TargetYear # NoYear /\ Abs(CandidateYear - TargetYear) > 2
        \/ Candidate.popularity < 5)
    => probe.value

\* C29: the threshold is strict.  For a candidate without the sentinel flag,
\* with a popularity of at least 0.5 and a release year equal to the target
\* year, needsManualReview returns false at score 35 and true at score 34;
\* it returns true exactly when the score is below 35.
C29_StrictThreshold ==
    (/\ ReviewApplied
     /\ Candidate # NoResult
     /\ ~Candidate.needsManualReview
     /\ Candidate.popularity >= 5
     /\ TargetYear # NoYear /\ CandidateYear = TargetYear)
    => /\ (Candidate.matchScore = Whole(35) => ~probe.value)
       /\ (Candidate.matchScore = Whole(34) => probe.value)
       /\ (probe.value <=> RLess(ScoreOrZero(Candidate.matchScore), Whole(35)))
C29_Witness ==
    /\ ReviewApplied /\ Candidate # NoResult
    /\ Candidate.matchScore = Whole(35) /\ Candidate.popularity = 5
    /\ ~Candidate.needsManualReview
    /\ TargetYear = 1995 /\ CandidateYear = 1995
    /\ ~probe.value

SimilarityApplied == probe.fn = "calculateTitleSimilarity"
Original == probe.args[1]
Other == probe.args[2]
OneContainsOther ==
    /\ normalizeTitle(Original) # normalizeTitle(Other)
    /\ \/ Includes(normalizeTitle(Original), normalizeTitle(Other))
       \/ Includes(normalizeTitle(Other), normalizeTitle(Original))
InBounds == ~RLess(probe.value, Whole(0)) /\ ~RLess(Whole(40), probe.value)

\* C30 as stated: for all strings a and b the similarity lies in [0, 40], is
\* 40 for (a, a) with a non-empty, and is 35 whenever the normalized titles
\* differ and one contains the other.  An empty argument yields 0 although
\* the other title's normalization contains the empty one.
C30_ContainmentAlways35 ==
    SimilarityApplied =>
       /\ InBounds
       /\ (Original = Other /\ Original # <<>> => probe.value = Whole(40))
       /\ (OneContainsOther => probe.value = Whole(35))

\* C30 amended: the similarity lies in [0, 40], is 40 for (a, a) with a
\* non-empty, and is 35 when both arguments are non-empty, their normalized
\* titles differ and one contains the other.
C30_SimilarityBounds ==
    SimilarityApplied =>
       /\ InBounds
       /\ (Original = Other /\ Original # <<>> => probe.value = Whole(40))
       /\ (Original # <<>> /\ Other # <<>> /\ OneContainsOther
             => probe.value = Whole(35))
C30_Witness ==
    /\ SimilarityApplied
    /\ Original = <<"T", "h", "e">> /\ Other = TitleHeat
    /\ probe.value = Whole(35)

\* ---- title cleaning
CleanApplied == probe.fn = "cleanMovieTitle"
RawTitle == probe.args[1]
HasPhrase(tokens, phrases) ==
    \E i \in DOMAIN tokens, k \in DOMAIN phrases : PhraseAt(tokens, i, phrases[k])
\* no studio name and no format token among the words of the title
FreeOfStudioAndFormat(title) ==
    /\ ~HasPhrase(Words(title), studioNames)
    /\ ~HasPhrase(Words(title), FormatWords)

\* C31: cleaning a title that holds no studio or format token a second time
\* changes nothing, and a result shorter than 2 characters is the trimmed
\* original title.
C31_IdempotentCleaning ==
    CleanApplied =>
        /\ FreeOfStudioAndFormat(RawTitle) =>
               cleanMovieTitle(probe.value) = probe.value
        /\ Len(probe.value) < 2 => probe.value = StrTrim(RawTitle)

\* ---- the running best of the strategy loop
SearchApplied == probe.fn = "_searchTMDB"
Search == probe.args[1]
Answers == probe.args[2]
\* the strategies the loop came to
Executed == 1..(probe.value.idx - 1)
Usable(k) == Answers[k].kind = "ok" /\ MediaResults(Answers[k].results) # <<>>
Found == {k \in Executed : Usable(k)}
BestOf(k) == findBestTMDBMatch(MediaResults(Answers[k].results), Search.title, Search.year)
\* the candidate score of candidate selection
CandidateScore(k) == MatchScore(BestOf(k), Search.title, Search.year)
\* the score the loop compares
LoopScore(k) == scoreSearchResult(BestOf(k), Search.title, Search.year, Search.priorities[k])
FirstHighest(k, score(_)) ==
    /\ \A j \in Found : ~RLess(score(k), score(j))
    /\ \A j \in Found : j < k => RLess(score(j), score(k))
SameCandidate(a, b) == a.id = b.id /\ a.media_type = b.media_type

C33_PlaceholderOnlyWithoutResults ==
    (SearchApplied /\ LoopDone(probe.value) /\ Found # {})
    => probe.value.bestResult # NoResult

\* ---- the forced eviction pass
\* the indexed entries with the oldest lastUsed
LeastRecentlyUsed ==
    {s \in IndexedSlots(cacheIndex) :
        \A u \in IndexedSlots(cacheIndex) :
            IndexRecord(cacheIndex[s[1]], s[2]).lastUsed
               <= IndexRecord(cacheIndex[u[1]], u[2]).lastUsed}

\* C34: a set whose write the store rejects for capacity evicts before it
\* retries: when the indexes hold at least one entry, the forced pass removes
\* a least recently used one, whether or not the total size is over the limit.
C34_ForcedEvictionFrees ==
    [][\A slot \in Slots :
          opCalls' = opCalls + 1 =>
          \A q \in QuotaSets(slot) :
             (CacheSet(slot, q[1], "quota", q[2], q[3]) /\ IndexedSlots(cacheIndex) # {})
             => Range(evicted') \cap LeastRecentlyUsed # {}]_vars

\* ---- index and store
RECURSIVE StoredBytes(_)
StoredBytes(slots) ==
    IF slots = {} THEN 0
    ELSE LET s == CHOOSE x \in slots : TRUE
         IN ItemSize(storage[s].data) + StoredBytes(slots \ {s})

\* C35: a payload is stored under (namespace, key) exactly when the index of
\* the namespace has a record for the key, and getTotalSize is the sum of the
\* sizes of the stored payloads.
C35_IndexMatchesStore ==
    /\ DOMAIN storage = IndexedSlots(cacheIndex)
    /\ GetTotalSize(Cache) = StoredBytes(DOMAIN storage)

\* ---- a set and the get that follows it
\* the cache the step leaves
CacheAfter == [storage |-> storage', index |-> cacheIndex', stats |-> stats', evicted |-> <<>>]

\* C36: an accepted set of a payload no larger than the ceiling is not undone
\* by the eviction pass it runs: the get issued right after it returns the
\* payload.
C36_ReadYourWrite ==
    [][\A slot \in Slots :
          opCalls' = opCalls + 1 =>
          \A data \in PayloadsOf(slot), order \in KeyOrders(DOMAIN cacheIndex \cup {slot[1]}) :
             (CacheSet(slot, data, "ok", TRUE, order) /\ ItemSize(data) <= maxSizeBytes)
             => Get(CacheAfter, slot[1], slot[2], now).value = data]_vars

\* ---- the two cache tiers over time
\* Lookups one at a time, with time passing between them up to the expiry of
\* what the earlier ones have stored.
NextTiers ==
    \/ NextSearch
    \/ \E t \in CacheInstants : Idle /\ CacheTick(t)

SpecTiers == InitLookup /\ [][NextTiers]_vars

\* the persistent cache holds the key and get would return its value
Live(cacheType, key) ==
    /\ <<cacheType, key>> \in DOMAIN storage
    /\ Parses(storage[<<cacheType, key>>])
    /\ ~IsExpired(storage[<<cacheType, key>>], now)
\* the step starts a network operation for the key
Starts(key) == \E o \in DOMAIN ops' : o \notin DOMAIN ops /\ ops'[o].key = key

\* C37: a lookupUPCData or searchTMDBForTitle called for a key whose
\* persistent entry is not live (never written, expired, or removed) starts a
\* network operation; the session tier does not answer in its place.
C37_TierCoherence ==
    [][/\ \A barcode \in Barcodes :
             (CompleteMovieLookup(barcode) /\ ~Live("upc", upcKey(barcode)))
             => Starts(upcKey(barcode))
       /\ \A o \in OperationIds, response \in DatedResponses,
             order \in PassOrders("upc", UpcBytes) :
             (/\ UPCSettle(o, response, order)
              /\ response.kind = "ok"
              /\ StrTrim(Derived[response.title].cleanTitle) # <<>>
              /\ ~Live("tmdb", Derived[response.title].key))
             => Starts(Derived[response.title].key)]_vars

\* ---- what searchTMDBForTitle caches
IsPlaceholder(value) == "needsManualReview" \in DOMAIN value /\ value.needsManualReview

\* C38: neither cache tier holds the no-match placeholder, so a lookup that
\* follows one that ended in the placeholder searches again.
C38_PlaceholderNotCached ==
    /\ \A key \in DOMAIN sessionCache : ~IsPlaceholder(sessionCache[key])
    /\ \A slot \in DOMAIN storage :
          slot[1] = "tmdb" => ~IsPlaceholder(storage[slot].data.id)

\* C39: pendingRequests has an entry for a key exactly when an invocation for
\* the key is unsettled, and the entry is that invocation; so no key has two
\* unsettled invocations and none is left without its entry, clearCaches
\* included.
C39_PendingMatchesInFlight ==
    /\ \A key \in DOMAIN pendingRequests :
          Running(pendingRequests[key]) /\ ops[pendingRequests[key]].key = key
    /\ \A o \in DOMAIN ops :
          Running(o) => /\ HasPending(pendingRequests, ops[o].key)
                        /\ pendingRequests[ops[o].key] = o

\* ---- reset() and the handler calls dispatched before it
\* The camera session without the periodic sweep: an in-flight entry is then
\* removed only by the settlement of its handler call or by reset(), so a
\* pending call without its entry is one dispatched before a reset.
NextReset ==
    \/ \E cameras \in {0, 1} : Initialize(cameras)
    \/ \E ok \in BOOLEAN : StartCamera(ok)
    \/ StopCamera
    \/ TogglePause
    \/ \E text \in CameraTexts : HandleScanResult(text)
    \/ \E i \in 1..MaxCalls : HandlerResolve(i)
    \/ \E i \in 1..MaxCalls : HandlerReject(i)
    \/ \E due \in readyTimers : ReadyTimerFire(due)
    \/ Reset
    \/ \E t \in ScannerInstants : ScannerTick(t)

SpecReset == InitScanner /\ [][NextReset]_vars

\* a scan is accepted: its handler call is dispatched
Accepted == Len(calls') > Len(calls)

\* C40: once reset() has emptied the in-flight and the completed set they stay
\* empty until a scan is accepted; the settlement of a handler call dispatched
\* before the reset adds nothing to them.
C40_ResetIsolates ==
    [][(scannedBarcodes = {} /\ processingBarcodes = <<>> /\ ~Accepted)
       => (scannedBarcodes' = {} /\ processingBarcodes' = <<>>)]_vars

====
